---- MODULE Spec2Model ----
(***************************************************************************)
(* Model of the persistent symbol table of go-arcspace (symbol/table.go).  *)
(*                                                                         *)
(* A symbol ID is a uint64 of which 40 bits go on the wire.  It is held    *)
(* here as the pair <<hi, lo>> with  id = hi * 2^24 + lo,  lo < 2^24, so   *)
(* that IDs beyond 2^31 stay representable.  A value is a byte sequence.   *)
(* The KV store is a function from key bytes to value bytes.               *)
(***************************************************************************)
EXTENDS Integers, Sequences, FiniteSets, TLC

(***************************************************************************)
(* Bounds of the model.                                                    *)
(***************************************************************************)
\* number of API calls made on a table in one behaviour
MaxCalls == 2
\* TableOpts.PoolSz: bytes in a freshly allocated pool
PoolSz == 2
\* number of concurrent callers in SpecConc
NThreads == 2

\* IDs marshalled in one batch
MaxCodec == 2

(***************************************************************************)
(* Program constants.                                                      *)
(***************************************************************************)
IDSz == 5
xValueIndex == 254
xNextID == 255
\* TableOpts.DbKeyPrefix
DbKeyPrefix == 1
\* first ID the Issuer hands out
MinIssuedID == 1

\* 2^24: the split point of the <<hi, lo>> representation of an ID
LoMod == 256 * 256 * 256

ZeroID == <<0, 0>>

\* a 40-bit ID whose 5 wire bytes are FF FE 00 00 01
AliasID == <<65534, 1>>

(***************************************************************************)
(* Inputs.                                                                 *)
(***************************************************************************)
Values == { <<>>, <<1>>, <<0, 0, 1>>, <<0, 0, 0, 0, 2>> }
SetIDs == { ZeroID, <<0, 1>>, AliasID }
LookupIDs == { ZeroID, <<0, 1>>, <<0, 2>>, AliasID }
Faults == { "none", "setVal", "setID", "commit" }

\* WriteTo with the bytes in the opposite order
WriteTo_LittleEndian(id, io) ==
    io \o << id[2] % 256,
             (id[2] \div 256) % 256,
             (id[2] \div 65536) % 256,
             id[1] % 256,
             (id[1] \div 256) % 256 >>

(***************************************************************************)
(* ID.WriteTo / ID.ReadFrom: big-endian marshal of the low 40 bits.        *)
(***************************************************************************)
WriteTo(id, io) ==
    io \o << (id[1] \div 256) % 256,
             id[1] % 256,
             (id[2] \div 65536) % 256,
             (id[2] \div 256) % 256,
             id[2] % 256 >>

\* ReadFrom that takes the ID from the last four bytes only
ReadFrom_FourBytes(in) ==
    << in[2], in[3] * 65536 + in[4] * 256 + in[5] >>

ReadFrom(in) ==
    << in[1] * 256 + in[2], in[3] * 65536 + in[4] * 256 + in[5] >>

(***************************************************************************)
(* Issuer.IssueNextID: hands out the counter and advances it.              *)
(***************************************************************************)
IssueNextID(next) ==
    [ id   |-> next,
      next |-> IF next[2] = LoMod - 1 THEN <<next[1] + 1, 0>>
                                      ELSE <<next[1], next[2] + 1>> ]

(***************************************************************************)
(* bufs.HashBuf: a deterministic hash of the bytes.  The sum of the bytes  *)
(* gives colliding and adjacent hashes among Values.                       *)
(***************************************************************************)
RECURSIVE SumBytes(_)
SumBytes(buf) == IF buf = <<>> THEN 0 ELSE Head(buf) + SumBytes(Tail(buf))

HashBuf(buf) == SumBytes(buf)

(***************************************************************************)
(* Keys of the KV store.                                                   *)
(***************************************************************************)
ValKey(val) == <<DbKeyPrefix, 255, xValueIndex>> \o val

TokenKey(symID) == WriteTo(symID, <<DbKeyPrefix>>)

Put(f, k, v) == (k :> v) @@ f

(***************************************************************************)
(* The table: st.db (hasDb, store), the Issuer's counter, the two caches   *)
(* and the arena.                                                          *)
(***************************************************************************)
VARIABLES hasDb, store, nextID, valueCache, tokenCache,
          bufPools, curBufPoolSz, curBufPoolIdx,
          crashed, hist, threads

\* the embedding surface (cmd/archost-lib): the two globals, the hosts,
\* services and sessions it has created, and the calls made on it
VARIABLES gLibSession, gLibService, libHosts, libServices, libSessions,
          libStatus, libLog

libVars == <<gLibSession, gLibService, libHosts, libServices, libSessions,
             libStatus, libLog>>

\* one host session (planet/host): the session's login flag and schema
\* table, the host's app registry, the pin requests and the outbox
VARIABLES loggedIn, schemas, appByURI, defaultApp, drainOnCancel,
          pins, outbox, sessLog

sessVars == <<loggedIn, schemas, appByURI, defaultApp, drainOnCancel,
              pins, outbox, sessLog>>

otherVars == <<libVars, sessVars>>

tableVars == <<hasDb, store, nextID, valueCache, tokenCache,
               bufPools, curBufPoolSz, curBufPoolIdx>>
symVars == <<hasDb, store, nextID, valueCache, tokenCache,
             bufPools, curBufPoolSz, curBufPoolIdx, crashed, hist, threads>>
vars == <<symVars, otherVars>>

Cur ==
    [ hasDb |-> hasDb, store |-> store, nextID |-> nextID,
      valueCache |-> valueCache, tokenCache |-> tokenCache,
      bufPools |-> bufPools, curBufPoolSz |-> curBufPoolSz,
      curBufPoolIdx |-> curBufPoolIdx ]

ZeroKV == [ symID |-> ZeroID, poolIdx |-> 0, poolOfs |-> 0, len |-> 0 ]

\* openTable: empty caches, no pool yet
openTable(db, st, next) ==
    [ hasDb |-> db, store |-> st, nextID |-> next,
      valueCache |-> <<>>, tokenCache |-> <<>>,
      bufPools |-> <<>>, curBufPoolSz |-> 0, curBufPoolIdx |-> -1 ]

(***************************************************************************)
(* Arena access.  Indexing bufPools out of range, or slicing a pool out of *)
(* range, is a run-time panic in Go.                                       *)
(***************************************************************************)
InBounds(T, kv) ==
    /\ kv.poolIdx >= 0
    /\ kv.poolIdx < Len(T.bufPools)
    /\ kv.poolOfs + kv.len <= Len(T.bufPools[kv.poolIdx + 1])

Slice(T, kv) ==
    SubSeq(T.bufPools[kv.poolIdx + 1], kv.poolOfs + 1, kv.poolOfs + kv.len)

\* equals: the length test comes first; the pool is read only on equal lengths
equalsPanics(T, kv, buf) == Len(buf) = kv.len /\ ~InBounds(T, kv)

equals(T, kv, buf) == Len(buf) = kv.len /\ Slice(T, kv) = buf

\* bufForEntry without the test for the zero entry
bufForEntry_NoZeroCheck(T, kv) ==
    IF ~InBounds(T, kv) THEN [ panic |-> TRUE, isNil |-> TRUE, buf |-> <<>> ]
    ELSE [ panic |-> FALSE, isNil |-> FALSE, buf |-> Slice(T, kv) ]

bufForEntry(T, kv) ==
    IF kv.symID = ZeroID THEN [ panic |-> FALSE, isNil |-> TRUE, buf |-> <<>> ]
    ELSE IF ~InBounds(T, kv) THEN [ panic |-> TRUE, isNil |-> TRUE, buf |-> <<>> ]
    ELSE [ panic |-> FALSE, isNil |-> FALSE, buf |-> Slice(T, kv) ]

(***************************************************************************)
(* The probe loop shared by getIDFromCache and allocAndBindToID: walk      *)
(* valueCache from hash upward until a free slot or an equal entry.        *)
(***************************************************************************)
RECURSIVE probe(_, _, _)
probe(T, buf, hash) ==
    IF hash \notin DOMAIN T.valueCache
    THEN [ panic |-> FALSE, found |-> FALSE, hash |-> hash, kv |-> ZeroKV ]
    ELSE LET kv == T.valueCache[hash] IN
         IF equalsPanics(T, kv, buf)
         THEN [ panic |-> TRUE, found |-> TRUE, hash |-> hash, kv |-> kv ]
         ELSE IF equals(T, kv, buf)
         THEN [ panic |-> FALSE, found |-> TRUE, hash |-> hash, kv |-> kv ]
         ELSE probe(T, buf, hash + 1)

getIDFromCache(T, buf) ==
    LET p == probe(T, buf, HashBuf(buf)) IN
    [ panic |-> p.panic,
      id    |-> IF p.found /\ ~p.panic THEN p.kv.symID ELSE ZeroID ]

Zeros(n) == [ i \in 1..n |-> 0 ]

Max(a, b) == IF a > b THEN a ELSE b

\* copy that also clears the bytes of the pool outside the copied range
CopyInto_ClearsPool(pool, ofs, buf) ==
    [ i \in 1..Len(pool) |->
        IF i > ofs /\ i <= ofs + Len(buf) THEN buf[i - ofs] ELSE 0 ]

\* copy(pool[ofs:ofs+len], buf)
CopyInto(pool, ofs, buf) ==
    [ i \in 1..Len(pool) |->
        IF i > ofs /\ i <= ofs + Len(buf) THEN buf[i - ofs] ELSE pool[i] ]

\* arenaAppend that does not advance curBufPoolSz past the copy
arenaAppend_ForgetsAdvance(T, buf, bindID) ==
    LET len     == Len(buf)
        capCur  == IF T.curBufPoolIdx < 0 THEN 0
                   ELSE Len(T.bufPools[T.curBufPoolIdx + 1])
        grow    == T.curBufPoolSz + len > capCur
        pools1  == IF grow THEN Append(T.bufPools, Zeros(Max(PoolSz, len)))
                           ELSE T.bufPools
        sz1     == IF grow THEN 0 ELSE T.curBufPoolSz
        idx1    == IF grow THEN T.curBufPoolIdx + 1 ELSE T.curBufPoolIdx
        pools2  == IF idx1 < 0 THEN pools1
                   ELSE [ pools1 EXCEPT ![idx1 + 1] = CopyInto(@, sz1, buf) ]
    IN [ T  |-> [ T EXCEPT !.bufPools = pools2,
                           !.curBufPoolSz = sz1,
                           !.curBufPoolIdx = idx1 ],
         kv |-> [ symID |-> bindID, poolIdx |-> idx1,
                  poolOfs |-> sz1, len |-> len ] ]

\* lines 150-164: the copy of buf into the arena, in a new pool when the
\* current one lacks room; gives the entry that refers to the copy
arenaAppend(T, buf, bindID) ==
    LET len     == Len(buf)
        capCur  == IF T.curBufPoolIdx < 0 THEN 0
                   ELSE Len(T.bufPools[T.curBufPoolIdx + 1])
        grow    == T.curBufPoolSz + len > capCur
        pools1  == IF grow THEN Append(T.bufPools, Zeros(Max(PoolSz, len)))
                           ELSE T.bufPools
        sz1     == IF grow THEN 0 ELSE T.curBufPoolSz
        idx1    == IF grow THEN T.curBufPoolIdx + 1 ELSE T.curBufPoolIdx
        pools2  == IF idx1 < 0 THEN pools1
                   ELSE [ pools1 EXCEPT ![idx1 + 1] = CopyInto(@, sz1, buf) ]
    IN [ T  |-> [ T EXCEPT !.bufPools = pools2,
                           !.curBufPoolSz = sz1 + len,
                           !.curBufPoolIdx = idx1 ],
         kv |-> [ symID |-> bindID, poolIdx |-> idx1,
                  poolOfs |-> sz1, len |-> len ] ]

\* bindCaches that leaves an ID the token cache already holds as it is
bindCaches_KeepsToken(T, hash, kv) ==
    [ T EXCEPT !.valueCache = Put(T.valueCache, hash, kv),
               !.tokenCache = IF kv.symID \in DOMAIN T.tokenCache
                              THEN T.tokenCache
                              ELSE Put(T.tokenCache, kv.symID, kv) ]

\* lines 166-171: the entry goes into both caches
bindCaches(T, hash, kv) ==
    [ T EXCEPT !.valueCache = Put(T.valueCache, hash, kv),
               !.tokenCache = Put(T.tokenCache, kv.symID, kv) ]

allocAndBindToID(T, buf, bindID) ==
    LET p == probe(T, buf, HashBuf(buf)) IN
    IF p.panic THEN [ panic |-> TRUE, T |-> T, kv |-> ZeroKV ]
    ELSE IF p.found /\ p.kv.symID = bindID
    THEN [ panic |-> FALSE, T |-> T, kv |-> p.kv ]
    ELSE LET a == arenaAppend(T, buf, bindID) IN
         [ panic |-> FALSE, T |-> bindCaches(a.T, p.hash, a.kv), kv |-> a.kv ]

\* ReadExisting without the test of line 228: the lookup runs in every case
ReadExisting_AlwaysLooksUp(snap, val, symID, mapID) ==
    IF ValKey(val) \in DOMAIN snap /\ Len(snap[ValKey(val)]) = IDSz
    THEN ReadFrom(snap[ValKey(val)])
    ELSE ZeroID

(***************************************************************************)
(* getsetValueIDPair, in the pieces it runs in.                            *)
(***************************************************************************)
\* lines 227-240: txn.Get(valKey) on the transaction's snapshot; the stored
\* bytes are taken for an ID only when they are IDSz long
ReadExisting(snap, val, symID, mapID) ==
    IF (symID = ZeroID \/ ~mapID)
       /\ ValKey(val) \in DOMAIN snap
       /\ Len(snap[ValKey(val)]) = IDSz
    THEN ReadFrom(snap[ValKey(val)])
    ELSE ZeroID

\* DecideGet that issues an ID whether or not mapID is set
DecideGet_IgnoresMapID(existingID, mapID, next) ==
    IF existingID # ZeroID
    THEN [ symID |-> existingID, reassignID |-> FALSE,
           reassignVal |-> FALSE, next |-> next ]
    ELSE [ symID |-> IssueNextID(next).id, reassignID |-> TRUE,
           reassignVal |-> TRUE, next |-> IssueNextID(next).next ]

\* lines 245-254: symID = 0; next is the Issuer's counter, advanced when an
\* ID is issued
DecideGet(existingID, mapID, next) ==
    IF existingID # ZeroID
    THEN [ symID |-> existingID, reassignID |-> FALSE,
           reassignVal |-> FALSE, next |-> next ]
    ELSE IF mapID
    THEN [ symID |-> IssueNextID(next).id, reassignID |-> TRUE,
           reassignVal |-> TRUE, next |-> IssueNextID(next).next ]
    ELSE [ symID |-> ZeroID, reassignID |-> FALSE,
           reassignVal |-> FALSE, next |-> next ]

\* lines 255-266: symID # 0
DecideSet(symID, existingID, mapID, next) ==
    IF existingID = ZeroID
    THEN [ symID |-> symID, reassignID |-> TRUE,
           reassignVal |-> TRUE, next |-> next ]
    ELSE IF symID # existingID
    THEN IF mapID
         THEN [ symID |-> existingID, reassignID |-> TRUE,
                reassignVal |-> TRUE, next |-> next ]
         ELSE [ symID |-> symID, reassignID |-> FALSE,
                reassignVal |-> TRUE, next |-> next ]
    ELSE [ symID |-> symID, reassignID |-> FALSE,
           reassignVal |-> FALSE, next |-> next ]

\* lines 242-266: the effective ID and the reassignment flags
Decide(symID, existingID, mapID, next) ==
    IF symID = ZeroID THEN DecideGet(existingID, mapID, next)
                      ELSE DecideSet(symID, existingID, mapID, next)

\* lines 207-210: without a db only (symID = 0, mapID) issues an ID
DecideNoDb(symID, mapID, next) ==
    IF symID = ZeroID /\ mapID
    THEN [ symID |-> IssueNextID(next).id, reassignID |-> FALSE,
           reassignVal |-> FALSE, next |-> IssueNextID(next).next ]
    ELSE [ symID |-> symID, reassignID |-> FALSE,
           reassignVal |-> FALSE, next |-> next ]

\* lines 271-279: the writes of one pass of the flush loop, in program order
\* (the later Set wins when both keys are the same bytes)
TxnWrites(st, val, symID, reassignID) ==
    LET s1 == Put(st, ValKey(val), WriteTo(symID, <<>>)) IN
    IF reassignID THEN Put(s1, TokenKey(symID), val) ELSE s1

\* does the injected KV fault hit this pass: txn.Set(valKey), txn.Set(idKey)
\* (only run when reassignID), txn.Commit
FaultHits(fault, reassignID) ==
    \/ fault = "setVal"
    \/ fault = "setID" /\ reassignID
    \/ fault = "commit"

\* lines 269-296 with one transaction at a time (no conflict).  The errors
\* of txn.Set and txn.Commit are assigned to the err declared by := inside the
\* loop (line 274); the for condition and the test of line 294 read the err
\* of the function scope, which only IssueNextID assigns.
FlushSeq(st, val, d, fault) ==
    LET writes   == d.reassignID \/ d.reassignVal
        innerErr == writes /\ FaultHits(fault, d.reassignID)
        outerErr == FALSE
    IN [ store |-> IF writes /\ ~innerErr
                   THEN TxnWrites(st, val, d.symID, d.reassignID) ELSE st,
         kvErr |-> innerErr,
         panic |-> outerErr ]

\* lines 299-303: the cache update and the return value
CacheUpdate(T, val, symID) ==
    IF symID # ZeroID THEN allocAndBindToID(T, val, symID)
                      ELSE [ panic |-> FALSE, T |-> T, kv |-> ZeroKV ]

getsetValueIDPair(T, val, symID, mapID, fault) ==
    LET d  == IF T.hasDb
              THEN Decide(symID, ReadExisting(T.store, val, symID, mapID),
                          mapID, T.nextID)
              ELSE DecideNoDb(symID, mapID, T.nextID)
        f  == IF T.hasDb THEN FlushSeq(T.store, val, d, fault)
              ELSE [ store |-> T.store, kvErr |-> FALSE, panic |-> FALSE ]
        T1 == [ T EXCEPT !.store = f.store, !.nextID = d.next ]
        a  == IF f.panic THEN [ panic |-> TRUE, T |-> T1, kv |-> ZeroKV ]
              ELSE CacheUpdate(T1, val, d.symID)
    IN [ panic |-> a.panic, T |-> a.T, ret |-> d.symID, kvErr |-> f.kvErr,
         isNil |-> TRUE, buf |-> <<>> ]

(***************************************************************************)
(* The three operations of symbol.Table.                                   *)
(***************************************************************************)
GetSymbolID(T, val, autoIssue, fault) ==
    LET c == getIDFromCache(T, val) IN
    IF c.panic \/ c.id # ZeroID
    THEN [ panic |-> c.panic, T |-> T, ret |-> c.id, kvErr |-> FALSE,
           isNil |-> TRUE, buf |-> <<>> ]
    ELSE getsetValueIDPair(T, val, ZeroID, autoIssue, fault)

SetSymbolID(T, val, symID, fault) ==
    getsetValueIDPair(T, val, symID, symID = ZeroID, fault)

LookupID(T, symID) ==
    IF symID = ZeroID
    THEN [ panic |-> FALSE, T |-> T, ret |-> symID, kvErr |-> FALSE,
           isNil |-> TRUE, buf |-> <<>> ]
    ELSE
    LET found == symID \in DOMAIN T.tokenCache
        load  == ~found /\ T.hasDb /\ TokenKey(symID) \in DOMAIN T.store
        a     == IF load
                 THEN allocAndBindToID(T, T.store[TokenKey(symID)], symID)
                 ELSE [ panic |-> FALSE, T |-> T,
                        kv |-> IF found THEN T.tokenCache[symID] ELSE ZeroKV ]
        e     == bufForEntry(a.T, a.kv)
    IN IF a.panic
       THEN [ panic |-> TRUE, T |-> a.T, ret |-> symID, kvErr |-> FALSE,
              isNil |-> TRUE, buf |-> <<>> ]
       ELSE [ panic |-> e.panic, T |-> a.T, ret |-> symID, kvErr |-> FALSE,
              isNil |-> e.isNil, buf |-> e.buf ]

(***************************************************************************)
(* What a table holds for a value or an ID, read off the caches and the    *)
(* store as LookupID and getsetValueIDPair would address them.             *)
(***************************************************************************)
EntryIs(T, kv, val) ==
    kv.len = Len(val) /\ (kv.len = 0 \/ (InBounds(T, kv) /\ Slice(T, kv) = val))

FwdInCache(T, val) ==
    \E h \in DOMAIN T.valueCache : EntryIs(T, T.valueCache[h], val)

FwdInStore(T, val) == T.hasDb /\ ValKey(val) \in DOMAIN T.store

HasFwd(T, val) == FwdInCache(T, val) \/ FwdInStore(T, val)

HasRev(T, symID) ==
    \/ symID \in DOMAIN T.tokenCache
    \/ T.hasDb /\ TokenKey(symID) \in DOMAIN T.store

\* the ID the store's forward entry of val holds (0: no such entry), read as
\* lines 231-236 read it
StoredID(T, val) ==
    IF T.hasDb THEN ReadExisting(T.store, val, ZeroID, TRUE) ELSE ZeroID

\* the ID of the value cache's entry of val (0: no entry)
CachedID(T, val) ==
    IF FwdInCache(T, val)
    THEN T.valueCache[CHOOSE h \in DOMAIN T.valueCache :
                         EntryIs(T, T.valueCache[h], val)].symID
    ELSE ZeroID

CachesOf(T) ==
    <<T.valueCache, T.tokenCache, T.bufPools, T.curBufPoolSz, T.curBufPoolIdx>>

(***************************************************************************)
(* One caller at a time: every action is a whole call.  hist records the   *)
(* calls made, each with its arguments, its outcome and what it changed.   *)
(***************************************************************************)
Call(op, val, symID, autoIssue, T, r) ==
    [ op |-> op, val |-> val, id |-> symID, autoIssue |-> autoIssue,
      panic |-> r.panic, ret |-> r.ret, isNil |-> r.isNil, buf |-> r.buf,
      kvErr |-> r.kvErr,
      fwdBound |-> { v \in Values : HasFwd(T, v) },
      hadFwd |-> HasFwd(T, val), hadRev |-> HasRev(T, symID),
      storedID |-> StoredID(T, val), cachedID |-> CachedID(T, val),
      store0 |-> T.store, store1 |-> r.T.store,
      storeChanged |-> r.T.store # T.store,
      cacheChanged |-> CachesOf(r.T) # CachesOf(T),
      issued |-> r.T.nextID # T.nextID ]

Install(T) ==
    /\ hasDb' = T.hasDb
    /\ store' = T.store
    /\ nextID' = T.nextID
    /\ valueCache' = T.valueCache
    /\ tokenCache' = T.tokenCache
    /\ bufPools' = T.bufPools
    /\ curBufPoolSz' = T.curBufPoolSz
    /\ curBufPoolIdx' = T.curBufPoolIdx

\* the variables hold table T
Holds(T) ==
    /\ hasDb = T.hasDb
    /\ store = T.store
    /\ nextID = T.nextID
    /\ valueCache = T.valueCache
    /\ tokenCache = T.tokenCache
    /\ bufPools = T.bufPools
    /\ curBufPoolSz = T.curBufPoolSz
    /\ curBufPoolIdx = T.curBufPoolIdx

\* the embedding surface before any call: both globals nil
LibFresh ==
    /\ gLibSession = 0
    /\ gLibService = 0
    /\ libHosts = <<>>
    /\ libServices = <<>>
    /\ libSessions = <<>>
    /\ libStatus = "running"
    /\ libLog = <<>>

\* a host with no app registered and a session nothing has been sent to
SessFresh ==
    /\ loggedIn = FALSE
    /\ schemas = <<>>
    /\ appByURI = <<>>
    /\ defaultApp = <<>>
    /\ drainOnCancel = FALSE
    /\ pins = <<>>
    /\ outbox = <<>>
    /\ sessLog = <<>>

Init ==
    /\ \E db \in BOOLEAN : Holds(openTable(db, <<>>, <<0, MinIssuedID>>))
    /\ crashed = FALSE
    /\ hist = <<>>
    /\ threads = <<>>
    /\ LibFresh
    /\ SessFresh

Finish(op, val, symID, autoIssue, r) ==
    /\ Install(r.T)
    /\ crashed' = r.panic
    /\ hist' = Append(hist, Call(op, val, symID, autoIssue, Cur, r))
    /\ UNCHANGED otherVars
    /\ UNCHANGED threads

CanCall == ~crashed /\ Len(hist) < MaxCalls

\* a fault is an input only of a call that reaches the KV writes
FaultApplies(fault, r) == fault = "none" \/ r.kvErr

DoGetSymbolID ==
    \E val \in Values, autoIssue \in BOOLEAN, fault \in Faults :
        LET r == GetSymbolID(Cur, val, autoIssue, fault) IN
        /\ CanCall
        /\ FaultApplies(fault, r)
        /\ Finish("Get", val, ZeroID, autoIssue, r)

DoSetSymbolID ==
    \E val \in Values, symID \in SetIDs, fault \in Faults :
        LET r == SetSymbolID(Cur, val, symID, fault) IN
        /\ CanCall
        /\ FaultApplies(fault, r)
        /\ Finish("Set", val, symID, FALSE, r)

DoLookupID ==
    \E symID \in LookupIDs :
        /\ CanCall
        /\ Finish("Lookup", <<>>, symID, FALSE, LookupID(Cur, symID))

\* Close, then openTable on the same db and Issuer: the caches start empty
Reopen ==
    /\ CanCall
    /\ hasDb
    /\ Finish("Reopen", <<>>, ZeroID, FALSE,
              [ panic |-> FALSE, T |-> openTable(hasDb, store, nextID),
                ret |-> ZeroID, kvErr |-> FALSE, isNil |-> TRUE, buf |-> <<>> ])

Next == DoGetSymbolID \/ DoSetSymbolID \/ DoLookupID \/ Reopen

Spec == Init /\ [][Next]_vars

(***************************************************************************)
(* Concurrent callers.  Each thread makes one GetSymbolID(val, true) call  *)
(* and runs it in the steps between which another thread can run: the      *)
(* cache lookup (under valueCacheMu.RLock), NewTransaction, txn.Get, the    *)
(* decision with IssueNextID, Set/Set/Commit, the cache update (under       *)
(* valueCacheMu.Lock).                                                      *)
(*                                                                         *)
(* The KV collaborator detects conflicts optimistically: a transaction     *)
(* reads its snapshot, and Commit fails with ErrConflict when a key it     *)
(* read was written by a transaction that committed after it began.        *)
(* dirty is the set of keys so written since the thread's transaction      *)
(* began.                                                                  *)
(***************************************************************************)
ConcValues == { <<>>, <<1>>, <<0, 0, 1>> }

Threads == 1..NThreads

NoDecision ==
    [ symID |-> ZeroID, reassignID |-> FALSE, reassignVal |-> FALSE,
      next |-> ZeroID ]

NewThread(val) ==
    [ pc |-> "start", val |-> val, symID |-> ZeroID, mapID |-> TRUE,
      snap |-> <<>>, reads |-> {}, dirty |-> {}, existingID |-> ZeroID,
      d |-> NoDecision, conflicts |-> 0, ret |-> ZeroID ]

InitConc ==
    /\ \E db \in BOOLEAN : Holds(openTable(db, <<>>, <<0, MinIssuedID>>))
    /\ crashed = FALSE
    /\ hist = <<>>
    /\ threads \in [ Threads -> { NewThread(v) : v \in ConcValues } ]
    /\ LibFresh
    /\ SessFresh

\* GetSymbolID lines 177-180
tCacheLookup(t) ==
    LET th == threads[t]
        c  == getIDFromCache(Cur, th.val) IN
    /\ ~crashed
    /\ th.pc = "start"
    /\ crashed' = c.panic
    /\ threads' = [ threads EXCEPT ![t] =
            IF c.panic THEN [ th EXCEPT !.pc = "panic" ]
            ELSE IF c.id # ZeroID THEN [ th EXCEPT !.pc = "done", !.ret = c.id ]
            ELSE [ th EXCEPT !.pc = IF hasDb THEN "begin" ELSE "nodb" ] ]
    /\ UNCHANGED otherVars
    /\ UNCHANGED <<tableVars, hist>>

\* getsetValueIDPair lines 207-210
tNoDb(t) ==
    LET th == threads[t]
        d  == DecideNoDb(th.symID, th.mapID, nextID) IN
    /\ ~crashed
    /\ th.pc = "nodb"
    /\ nextID' = d.next
    /\ threads' = [ threads EXCEPT ![t] = [ th EXCEPT !.pc = "cache", !.d = d ] ]
    /\ UNCHANGED otherVars
    /\ UNCHANGED <<hasDb, store, valueCache, tokenCache, bufPools,
                   curBufPoolSz, curBufPoolIdx, crashed, hist>>

\* line 212: st.db.NewTransaction(true)
tBegin(t) ==
    LET th == threads[t] IN
    /\ ~crashed
    /\ th.pc = "begin"
    /\ threads' = [ threads EXCEPT ![t] =
            [ th EXCEPT !.pc = "read", !.snap = store, !.reads = {},
                        !.dirty = {} ] ]
    /\ UNCHANGED otherVars
    /\ UNCHANGED <<tableVars, crashed, hist>>

\* lines 227-240: txn.Get(valKey) reads the snapshot and records the key
tRead(t) ==
    LET th == threads[t] IN
    /\ ~crashed
    /\ th.pc = "read"
    /\ threads' = [ threads EXCEPT ![t] =
            [ th EXCEPT !.pc = "decide",
                        !.existingID =
                            ReadExisting(th.snap, th.val, th.symID, th.mapID),
                        !.reads = IF th.symID = ZeroID \/ ~th.mapID
                                  THEN { ValKey(th.val) } ELSE {} ] ]
    /\ UNCHANGED otherVars
    /\ UNCHANGED <<tableVars, crashed, hist>>

\* lines 242-266
tDecide(t) ==
    LET th == threads[t]
        d  == Decide(th.symID, th.existingID, th.mapID, nextID) IN
    /\ ~crashed
    /\ th.pc = "decide"
    /\ nextID' = d.next
    /\ threads' = [ threads EXCEPT ![t] =
            [ th EXCEPT !.d = d,
                        !.pc = IF d.reassignID \/ d.reassignVal
                               THEN "flush" ELSE "cache" ] ]
    /\ UNCHANGED otherVars
    /\ UNCHANGED <<hasDb, store, valueCache, tokenCache, bufPools,
                   curBufPoolSz, curBufPoolIdx, crashed, hist>>

KeysWritten(th) ==
    { ValKey(th.val) } \cup
    (IF th.d.reassignID THEN { TokenKey(th.d.symID) } ELSE {})

InTxn(th) == th.pc \in { "read", "decide", "flush" }

\* lines 271-287: the Sets and a Commit that succeeds
tCommit(t) ==
    LET th == threads[t] IN
    /\ ~crashed
    /\ th.pc = "flush"
    /\ th.reads \cap th.dirty = {}
    /\ store' = TxnWrites(store, th.val, th.d.symID, th.d.reassignID)
    /\ threads' = [ u \in Threads |->
            IF u = t THEN [ th EXCEPT !.pc = "cache" ]
            ELSE IF InTxn(threads[u])
            THEN [ threads[u] EXCEPT !.dirty = @ \cup KeysWritten(th) ]
            ELSE threads[u] ]
    /\ UNCHANGED otherVars
    /\ UNCHANGED <<hasDb, nextID, valueCache, tokenCache, bufPools,
                   curBufPoolSz, curBufPoolIdx, crashed, hist>>

\* lines 281-291: Commit fails with ErrConflict; the transaction is
\* discarded and a fresh one opened, and the loop runs the Sets again with
\* the symID and the flags it already has
tConflict(t) ==
    LET th == threads[t] IN
    /\ ~crashed
    /\ th.pc = "flush"
    /\ th.reads \cap th.dirty # {}
    /\ threads' = [ threads EXCEPT ![t] =
            [ th EXCEPT !.snap = store, !.reads = {}, !.dirty = {},
                        !.conflicts = @ + 1 ] ]
    /\ UNCHANGED otherVars
    /\ UNCHANGED <<tableVars, crashed, hist>>

\* lines 299-303
tCacheUpdate(t) ==
    LET th == threads[t]
        a  == CacheUpdate(Cur, th.val, th.d.symID) IN
    /\ ~crashed
    /\ th.pc = "cache"
    /\ Install(a.T)
    /\ crashed' = a.panic
    /\ threads' = [ threads EXCEPT ![t] =
            IF a.panic THEN [ th EXCEPT !.pc = "panic" ]
            ELSE [ th EXCEPT !.pc = "done", !.ret = th.d.symID ] ]
    /\ UNCHANGED otherVars
    /\ UNCHANGED hist

NextConc ==
    \E t \in Threads :
        \/ tCacheLookup(t)
        \/ tNoDb(t)
        \/ tBegin(t)
        \/ tRead(t)
        \/ tDecide(t)
        \/ tCommit(t)
        \/ tConflict(t)
        \/ tCacheUpdate(t)

SpecConc == InitConc /\ [][NextConc]_vars


\* a step of thread t
ThreadStep(t) ==
    \/ tCacheLookup(t)
    \/ tNoDb(t)
    \/ tBegin(t)
    \/ tRead(t)
    \/ tDecide(t)
    \/ tCommit(t)
    \/ tConflict(t)
    \/ tCacheUpdate(t)

\* the Go scheduler runs every goroutine that can run
SpecConcLive == SpecConc /\ \A t \in Threads : WF_vars(ThreadStep(t))

AllDone == \A t \in Threads : threads[t].pc = "done"


(***************************************************************************)
(* The cache locks.  Each thread makes one call (GetSymbolID, SetSymbolID  *)
(* or LookupID) and runs it in the steps at which it takes or gives up     *)
(* valueCacheMu and tokenCacheMu; the transaction of getsetValueIDPair,    *)
(* which takes no lock, is one step.  held is the list of the locks a      *)
(* thread holds, in the order it took them.                                *)
(***************************************************************************)
\* the calls the threads make
LockCalls ==
    { [ op |-> "Get", val |-> <<1>>, id |-> ZeroID ],
      [ op |-> "Set", val |-> <<0, 0, 1>>, id |-> <<0, 2>> ],
      [ op |-> "Lookup", val |-> <<>>, id |-> <<0, 1>> ],
      [ op |-> "Lookup", val |-> <<>>, id |-> <<0, 2>> ] }

\* a table opened on the db in which GetSymbolID(<<1>>, true) was committed
\* by an earlier run
StoredTable ==
    LET T == GetSymbolID(openTable(TRUE, <<>>, <<0, MinIssuedID>>),
                         <<1>>, TRUE, "none").T
    IN openTable(TRUE, T.store, T.nextID)

NewLockThread(c) ==
    [ op |-> c.op, val |-> c.val, id |-> c.id,
      pc |-> CASE c.op = "Get" -> "gRLock"
               [] c.op = "Set" -> "db"
               [] OTHER -> IF c.id = ZeroID THEN "done" ELSE "lRLock",
      held |-> <<>>, symID |-> ZeroID, kv |-> ZeroKV,
      ret |-> ZeroID, isNil |-> TRUE, buf |-> <<>>, raced |-> FALSE ]

InitLock ==
    /\ \/ Holds(StoredTable)
       \/ Holds(openTable(FALSE, <<>>, <<0, MinIssuedID>>))
    /\ crashed = FALSE
    /\ hist = <<>>
    /\ threads \in [ Threads -> { NewLockThread(c) : c \in LockCalls } ]
    /\ LibFresh
    /\ SessFresh

\* the threads that hold mu in mode ("R" or "W")
Holders(mu, mode) ==
    { t \in Threads :
        \E i \in DOMAIN threads[t].held : threads[t].held[i] = <<mu, mode>> }

\* the threads that have called Lock on mu and wait for it
WaitingToLock(mu) ==
    { t \in Threads :
        \/ mu = "valueCacheMu" /\ threads[t].pc = "aLock"
        \/ mu = "tokenCacheMu" /\ threads[t].pc = "aTokLock" }

\* sync.RWMutex: Lock waits for every holder; RLock waits for a writer that
\* holds the mutex or waits for it
CanLock(mu) == Holders(mu, "W") = {} /\ Holders(mu, "R") = {}

CanRLock(t, mu) ==
    Holders(mu, "W") = {} /\ WaitingToLock(mu) \ { t } = {}

Release(held, lock) == SelectSeq(held, LAMBDA l : l # lock)

\* LookupID that keeps its read lock on the token cache
AfterTokenRead_KeepsLock(held) == held

\* line 313: tokenCacheMu.RUnlock
AfterTokenRead(held) == Release(held, <<"tokenCacheMu", "R">>)

\* a step of thread t that leaves th as its record and touches no table
LockStep(t, th) ==
    /\ ~crashed
    /\ threads' = [ threads EXCEPT ![t] = th ]
    /\ UNCHANGED <<tableVars, crashed, hist>>
    /\ UNCHANGED otherVars

\* a step of thread t that leaves table T, or panics
TableStep(t, th, T, panic) ==
    /\ ~crashed
    /\ Install(T)
    /\ crashed' = panic
    /\ threads' = [ threads EXCEPT ![t] =
                      IF panic THEN [ th EXCEPT !.pc = "panic" ] ELSE th ]
    /\ UNCHANGED hist
    /\ UNCHANGED otherVars


\* line 112: valueCacheMu.RLock in getIDFromCache
lkGetRLock(t) ==
    LET th == threads[t] IN
    /\ th.pc = "gRLock"
    /\ CanRLock(t, "valueCacheMu")
    /\ LockStep(t, [ th EXCEPT !.pc = "gProbe",
                               !.held = Append(@, <<"valueCacheMu", "R">>) ])

\* lines 115-124 and the deferred RUnlock; GetSymbolID lines 178-182
lkGetProbe(t) ==
    LET th == threads[t]
        c  == getIDFromCache(Cur, th.val)
        h  == Release(th.held, <<"valueCacheMu", "R">>)
    IN /\ th.pc = "gProbe"
       /\ TableStep(t, IF c.id # ZeroID
                       THEN [ th EXCEPT !.pc = "done", !.held = h,
                                        !.ret = c.id ]
                       ELSE [ th EXCEPT !.pc = "db", !.held = h ],
                    Cur, c.panic)

\* getsetValueIDPair lines 207-297: the transaction, with no other
\* transaction in its way
lkDb(t) ==
    LET th    == threads[t]
        mapID == th.id = ZeroID
        d     == IF hasDb
                 THEN Decide(th.id, ReadExisting(store, th.val, th.id, mapID),
                             mapID, nextID)
                 ELSE DecideNoDb(th.id, mapID, nextID)
        f     == IF hasDb THEN FlushSeq(store, th.val, d, "none")
                 ELSE [ store |-> store, kvErr |-> FALSE, panic |-> FALSE ]
    IN /\ th.pc = "db"
       /\ TableStep(t, [ th EXCEPT !.symID = d.symID, !.ret = d.symID,
                                   !.pc = IF d.symID # ZeroID THEN "aLock"
                                                              ELSE "done" ],
                    [ Cur EXCEPT !.store = f.store, !.nextID = d.next ],
                    f.panic)

\* line 130: valueCacheMu.Lock in allocAndBindToID
lkAllocLock(t) ==
    LET th == threads[t] IN
    /\ th.pc = "aLock"
    /\ CanLock("valueCacheMu")
    /\ LockStep(t, [ th EXCEPT !.pc = "aArena",
                               !.held = Append(@, <<"valueCacheMu", "W">>) ])

\* will the thread at line 133 copy its value into the arena
Appends(th) ==
    LET p == probe(Cur, th.val, HashBuf(th.val)) IN
    ~p.panic /\ ~(p.found /\ p.kv.symID = th.symID)

\* lines 133-167: the probe, the copy into the arena, the value cache entry
lkAllocArena(t) ==
    LET th == threads[t]
        p  == probe(Cur, th.val, HashBuf(th.val))
        a  == arenaAppend(Cur, th.val, th.symID)
    IN /\ th.pc = "aArena"
       /\ IF p.panic \/ (p.found /\ p.kv.symID = th.symID)
          THEN TableStep(t, [ th EXCEPT !.pc = "aUnlock", !.kv = p.kv ],
                         Cur, p.panic)
          ELSE TableStep(t, [ th EXCEPT !.pc = "aTokLock", !.kv = a.kv ],
                         [ a.T EXCEPT !.valueCache = Put(@, p.hash, a.kv) ],
                         FALSE)

\* line 169: tokenCacheMu.Lock
lkTokLock(t) ==
    LET th == threads[t] IN
    /\ th.pc = "aTokLock"
    /\ CanLock("tokenCacheMu")
    /\ LockStep(t, [ th EXCEPT !.pc = "aTokSet",
                               !.held = Append(@, <<"tokenCacheMu", "W">>) ])

\* lines 170-171: the token cache entry, tokenCacheMu.Unlock
lkTokSet(t) ==
    LET th == threads[t] IN
    /\ th.pc = "aTokSet"
    /\ TableStep(t, [ th EXCEPT !.pc = "aUnlock",
                                !.held = Release(@, <<"tokenCacheMu", "W">>) ],
                 [ Cur EXCEPT !.tokenCache = Put(@, th.kv.symID, th.kv) ],
                 FALSE)

\* the deferred valueCacheMu.Unlock; back in the caller
lkAllocUnlock(t) ==
    LET th == threads[t] IN
    /\ th.pc = "aUnlock"
    /\ LockStep(t, [ th EXCEPT !.pc = IF th.op = "Lookup" THEN "bufRead"
                                                          ELSE "done",
                               !.held = Release(@, <<"valueCacheMu", "W">>) ])

\* line 311: tokenCacheMu.RLock in LookupID
lkLookupRLock(t) ==
    LET th == threads[t] IN
    /\ th.pc = "lRLock"
    /\ CanRLock(t, "tokenCacheMu")
    /\ LockStep(t, [ th EXCEPT !.pc = "lRead",
                               !.held = Append(@, <<"tokenCacheMu", "R">>) ])

\* lines 312-317
lkLookupRead(t) ==
    LET th    == threads[t]
        found == th.id \in DOMAIN tokenCache
    IN /\ th.pc = "lRead"
       /\ LockStep(t, [ th EXCEPT !.kv = IF found THEN tokenCache[th.id]
                                                  ELSE ZeroKV,
                                  !.held = AfterTokenRead(@),
                                  !.pc = IF ~found /\ hasDb THEN "lLoad"
                                                            ELSE "bufRead" ])

\* lines 318-327: txn.Get(tokenKey); the value found is handed to
\* allocAndBindToID
lkLookupLoad(t) ==
    LET th == threads[t] IN
    /\ th.pc = "lLoad"
    /\ LockStep(t, IF TokenKey(th.id) \in DOMAIN store
                   THEN [ th EXCEPT !.val = store[TokenKey(th.id)],
                                    !.symID = th.id, !.pc = "aLock" ]
                   ELSE [ th EXCEPT !.pc = "bufRead" ])

\* is another thread about to copy into the arena while t reads it
ArenaRace(t) ==
    /\ threads[t].pc = "bufRead"
    /\ threads[t].kv.symID # ZeroID
    /\ \E u \in Threads \ { t } :
          threads[u].pc = "aArena" /\ Appends(threads[u])

\* line 334: bufForEntry, with no lock held.  A read that races with the
\* append of another thread has no defined outcome: it may give the bytes
\* or fail.
lkBufRead(t) ==
    LET th == threads[t]
        e  == bufForEntry(Cur, th.kv)
    IN /\ th.pc = "bufRead"
       /\ \E fails \in { FALSE } \cup { ArenaRace(t) } :
             TableStep(t, [ th EXCEPT !.pc = "done", !.ret = th.id,
                                      !.isNil = e.isNil, !.buf = e.buf,
                                      !.raced = ArenaRace(t) ],
                       Cur, e.panic \/ fails)

LockThreadStep(t) ==
    \/ lkGetRLock(t)
    \/ lkGetProbe(t)
    \/ lkDb(t)
    \/ lkAllocLock(t)
    \/ lkAllocArena(t)
    \/ lkTokLock(t)
    \/ lkTokSet(t)
    \/ lkAllocUnlock(t)
    \/ lkLookupRLock(t)
    \/ lkLookupRead(t)
    \/ lkLookupLoad(t)
    \/ lkBufRead(t)

NextLock == \E t \in Threads : LockThreadStep(t)

SpecLock == InitLock /\ [][NextLock]_vars


(***************************************************************************)
(* One caller at a time on a table that may have been opened on a db       *)
(* written by an earlier run: the store holds what the calls of that run   *)
(* committed, the caches start empty.                                      *)
(***************************************************************************)
\* Close, then openTable on the same db and Issuer
Reopened(T) == openTable(T.hasDb, T.store, T.nextID)

\* the table after SetSymbolID(<<1>>, 1), SetSymbolID(<<1>>, AliasID): the
\* forward entry of <<1>> was moved, the reverse entry of 1 is still there
MovedTable ==
    LET T0 == openTable(TRUE, <<>>, <<0, MinIssuedID>>)
        T1 == SetSymbolID(T0, <<1>>, <<0, 1>>, "none").T
    IN Reopened(SetSymbolID(T1, <<1>>, AliasID, "none").T)

\* the table after SetSymbolID(<<0, 0, 1>>, AliasID)
AliasTable ==
    Reopened(SetSymbolID(openTable(TRUE, <<>>, <<0, MinIssuedID>>),
                         <<0, 0, 1>>, AliasID, "none").T)

OpenedTables ==
    { openTable(db, <<>>, <<0, MinIssuedID>>) : db \in BOOLEAN }
    \cup { StoredTable, MovedTable, AliasTable }

InitStored ==
    /\ \E T \in OpenedTables : Holds(T)
    /\ crashed = FALSE
    /\ hist = <<>>
    /\ threads = <<>>
    /\ LibFresh
    /\ SessFresh

SpecStored == InitStored /\ [][Next]_vars


(***************************************************************************)
(* ID.WriteTo and ID.ReadFrom on their own: a batch of IDs, each with the  *)
(* buffer it is appended to, is marshalled and read back.  An ID is the    *)
(* pair <<id >> 24, id mod 2^24>>.                                         *)
(***************************************************************************)
CodecIDs ==
    { <<0, 0>>, <<0, 1>>, <<0, 256>>, <<0, 16777215>>, <<1, 0>>,
      <<255, 16777215>>, <<256, 0>>, <<65535, 16777215>>,
      <<65536, 0>>, <<65536, 1>>, <<65537, 255>>, <<2147483647, 16777215>> }

CodecBufs == { <<>>, <<DbKeyPrefix>> }

CodecInput(id, io) ==
    [ op |-> "Codec", pc |-> "in", id |-> id, io |-> io,
      out |-> <<>>, back |-> ZeroID, n |-> 0 ]

InitCodec ==
    /\ Holds(openTable(FALSE, <<>>, <<0, MinIssuedID>>))
    /\ crashed = FALSE
    /\ hist \in [ 1..MaxCodec -> { CodecInput(id, io) : id \in CodecIDs,
                                                         io \in CodecBufs } ]
    /\ threads = <<>>
    /\ LibFresh
    /\ SessFresh

\* out := id.WriteTo(io)
DoWriteTo ==
    \E i \in DOMAIN hist :
        /\ hist[i].pc = "in"
        /\ hist' = [ hist EXCEPT ![i].pc = "written",
                                 ![i].out = WriteTo(hist[i].id, hist[i].io) ]
        /\ UNCHANGED <<tableVars, crashed, threads, otherVars>>

\* n := back.ReadFrom(out[len(io):])
DoReadFrom ==
    \E i \in DOMAIN hist :
        LET r  == hist[i]
            in == SubSeq(r.out, Len(r.io) + 1, Len(r.out))
        IN
        /\ r.pc = "written"
        /\ hist' = [ hist EXCEPT ![i].pc = "read",
                                 ![i].back = ReadFrom(in),
                                 ![i].n = IDSz ]
        /\ UNCHANGED <<tableVars, crashed, threads, otherVars>>

NextCodec == DoWriteTo \/ DoReadFrom

SpecCodec == InitCodec /\ [][NextCodec]_vars


(***************************************************************************)
(* getsetValueIDPair called directly, with every combination of symID and  *)
(* mapID (the exported calls only pass mapID = (symID = 0) or symID = 0).  *)
(***************************************************************************)
DoGetSetValueIDPair ==
    \E val \in Values, symID \in SetIDs, mapID \in BOOLEAN, fault \in Faults :
        LET r == getsetValueIDPair(Cur, val, symID, mapID, fault) IN
        /\ CanCall
        /\ FaultApplies(fault, r)
        /\ Finish("GetSet", val, symID, mapID, r)

NextPair == DoGetSetValueIDPair \/ Reopen

SpecPair == InitStored /\ [][NextPair]_vars

(***************************************************************************)
(* The embedding surface, cmd/archost-lib/main.go.  gLibSession and        *)
(* gLibService are 0 for nil, otherwise the index of the session in        *)
(* libSessions and of the service in libServices.  Each call is made by    *)
(* the embedding process and runs to its return.                           *)
(***************************************************************************)
MaxLibCalls == 4

SessionHandle == 12345

\* archost.StartNewHost: one more running host
StartNewHost(hosts) == Append(hosts, [ closed |-> FALSE, closes |-> 0 ])

\* Host.Close on host h
CloseHost(hosts, h) ==
    [ hosts EXCEPT ![h] = [ closed |-> TRUE, closes |-> @.closes + 1 ] ]

\* opts.NewLibService followed by StartService(h): the service, with the
\* host it was given and whether it got started on it
NewLibService(services, h, startOk) ==
    Append(services, [ host |-> h, started |-> startOk, done |-> FALSE ])

\* LibService.NewLibSession: a new open session of service svc
NewLibSession(sessions, svc) ==
    Append(sessions, [ svc |-> svc, closed |-> FALSE,
                       pushed |-> 0, waited |-> 0, realloc |-> 0 ])

LibSnap ==
    [ sess |-> gLibSession, svc |-> gLibService, hosts |-> libHosts,
      services |-> libServices, sessions |-> libSessions ]

CanLibCall == libStatus = "running" /\ Len(libLog) < MaxLibCalls

LibReturn(op, ret, status) ==
    /\ libStatus' = status
    /\ libLog' = Append(libLog, [ op |-> op, ret |-> ret, status |-> status,
                                  before |-> LibSnap, after |-> LibSnap' ])
    /\ UNCHANGED <<symVars, sessVars>>

\* the guard without its test
SlotTaken_Never == FALSE

\* line 23: gLibSession != nil
SlotTaken == gLibSession # 0

\* startOk, sessOk: whether StartService and NewLibSession succeed
Call_SessionBegin ==
    \E startOk \in BOOLEAN, sessOk \in BOOLEAN :
        /\ CanLibCall
        /\ IF SlotTaken
           THEN /\ UNCHANGED <<gLibSession, gLibService, libHosts,
                               libServices, libSessions>>
                /\ startOk /\ sessOk
                /\ LibReturn("SessionBegin", 0, "running")
           ELSE LET h     == Len(libHosts) + 1
                    svc   == Len(libServices) + 1
                    hosts == StartNewHost(libHosts)
                IN /\ sessOk \/ startOk
                   /\ libServices' = NewLibService(libServices, h, startOk)
                   /\ gLibService' = svc
                   /\ IF startOk /\ sessOk
                      THEN /\ libSessions' = NewLibSession(libSessions, svc)
                           /\ gLibSession' = Len(libSessions) + 1
                           /\ libHosts' = hosts
                           /\ LibReturn("SessionBegin", SessionHandle,
                                        "running")
                      ELSE /\ libSessions' = libSessions
                           /\ gLibSession' = 0
                           /\ libHosts' = CloseHost(hosts, h)
                           /\ LibReturn("SessionBegin", 0, "running")

Call_SessionEnd ==
    /\ CanLibCall
    /\ IF gLibSession = 0
       THEN UNCHANGED <<gLibSession, libSessions>>
       ELSE /\ libSessions' = [ libSessions EXCEPT
                                  ![gLibSession].closed = TRUE ]
            /\ gLibSession' = 0
    /\ UNCHANGED <<gLibService, libHosts, libServices>>
    /\ LibReturn("SessionEnd", 0, "running")

\* Call_Shutdown that leaves gLibSession as it is (no line 68)
Call_Shutdown_KeepsSession ==
    \E signals \in BOOLEAN :
        /\ CanLibCall
        /\ UNCHANGED <<libSessions, gLibSession>>
        /\ IF gLibService = 0
           THEN /\ signals
                /\ UNCHANGED <<gLibService, libHosts, libServices>>
                /\ LibReturn("Shutdown", 0, "running")
           ELSE LET srv == libServices[gLibService] IN
                /\ signals \/ ~srv.started
                /\ gLibService' = 0
                /\ libHosts' = CloseHost(libHosts, srv.host)
                /\ libServices' = [ libServices EXCEPT
                                      ![gLibService].done = signals ]
                /\ LibReturn("Shutdown", 0,
                             IF signals THEN "running" ELSE "blocked")

\* <-srv.Done() returns once the service has detached from its closed
\* host (done); a service that never got started on the host may never
\* signal
Call_Shutdown ==
    \E signals \in BOOLEAN :
        /\ CanLibCall
        /\ UNCHANGED libSessions
        /\ IF gLibService = 0
           THEN /\ signals
                /\ UNCHANGED <<gLibSession, gLibService, libHosts,
                               libServices>>
                /\ LibReturn("Shutdown", 0, "running")
           ELSE LET srv == libServices[gLibService] IN
                /\ signals \/ ~srv.started
                /\ gLibService' = 0
                /\ gLibSession' = 0
                /\ libHosts' = CloseHost(libHosts, srv.host)
                /\ libServices' = [ libServices EXCEPT
                                      ![gLibService].done = signals ]
                /\ LibReturn("Shutdown", 0,
                             IF signals THEN "running" ELSE "blocked")

\* wellFormed: whether msg.Unmarshal(msg_pb) succeeds
Call_PushMsg ==
    \E wellFormed \in BOOLEAN :
        /\ CanLibCall
        /\ UNCHANGED <<gLibSession, gLibService, libHosts, libServices>>
        /\ IF gLibSession = 0
           THEN /\ wellFormed
                /\ UNCHANGED libSessions
                /\ LibReturn("PushMsg", -1, "running")
           ELSE IF ~wellFormed
           THEN /\ UNCHANGED libSessions
                /\ LibReturn("PushMsg", 0, "panicked")
           ELSE /\ libSessions' = [ libSessions EXCEPT
                                      ![gLibSession].pushed = @ + 1 ]
                /\ LibReturn("PushMsg", 0, "running")

\* Call_WaitOnMsg without the test of line 93: returns 0 in every case
Call_WaitOnMsg_NoNilCheck ==
    /\ CanLibCall
    /\ UNCHANGED <<gLibSession, gLibService, libHosts, libServices>>
    /\ IF gLibSession = 0
       THEN UNCHANGED libSessions
       ELSE libSessions' = [ libSessions EXCEPT
                               ![gLibSession].waited = @ + 1 ]
    /\ LibReturn("WaitOnMsg", 0, "running")

Call_WaitOnMsg ==
    /\ CanLibCall
    /\ UNCHANGED <<gLibSession, gLibService, libHosts, libServices>>
    /\ IF gLibSession = 0
       THEN /\ UNCHANGED libSessions
            /\ LibReturn("WaitOnMsg", -1, "running")
       ELSE /\ libSessions' = [ libSessions EXCEPT
                                  ![gLibSession].waited = @ + 1 ]
            /\ LibReturn("WaitOnMsg", 0, "running")

Call_Realloc ==
    /\ CanLibCall
    /\ UNCHANGED <<gLibSession, gLibService, libHosts, libServices>>
    /\ IF gLibSession = 0
       THEN /\ UNCHANGED libSessions
            /\ LibReturn("Realloc", -1, "running")
       ELSE /\ libSessions' = [ libSessions EXCEPT
                                  ![gLibSession].realloc = @ + 1 ]
            /\ LibReturn("Realloc", 0, "running")

InitLib ==
    /\ Holds(openTable(FALSE, <<>>, <<0, MinIssuedID>>))
    /\ crashed = FALSE
    /\ hist = <<>>
    /\ threads = <<>>
    /\ LibFresh
    /\ SessFresh

NextLib ==
    \/ Call_SessionBegin
    \/ Call_SessionEnd
    \/ Call_Shutdown
    \/ Call_PushMsg
    \/ Call_WaitOnMsg
    \/ Call_Realloc

SpecLib == InitLib /\ [][NextLib]_vars

(***************************************************************************)
(* One host session: the session multiplexer, the type registry, the app   *)
(* registry of the host and the cell pin engine.  Their Go implementation  *)
(* (planet/host) is not among the source files; api.planet.go declares     *)
(* the interfaces, the opcodes and the error codes, and the behaviour is   *)
(* the one the design describes for them.                                  *)
(***************************************************************************)
MaxInbound == 4
MaxPush == 2

MsgOp_Login == 1
MsgOp_ResolveAndRegister == 5
MsgOp_PinCell == 6
MsgOp_PushAttr == 10
MsgOp_InsertCell == 14
MsgOp_Commit == 24
MsgOp_CloseReq == 255

ErrCode_NoErr == 0
ErrCode_UnsupportedOp == 5002
ErrCode_ReqCanceled == 5004
ErrCode_InvalidReq == 5020
ErrCode_AppNotFound == 5034
ErrCode_TypeNotRegistered == 5051
ErrCode_BadSchema == 5052
ErrCode_DataFailure == 5053
ErrCode_InvalidCell == 5055
ErrCode_InsufficientPermissions == 5101

DefaultAppForDataModel == "."

Const_HostSessionCellID == 3

\* the request IDs a client uses
ReqIDs == { 1 }

\* the cells an app pushes besides the pinned cell
ChildCells == { 10 }

\* the apps a host can be given, and the orders they are registered in
AppA == [ uri |-> "appA", models |-> { "dirs" } ]
AppB == [ uri |-> "appB", models |-> { "dirs", "mail" } ]
RegOrders == { <<>>, <<AppB, AppA>> }

\* the schema definitions a client sends: two contents for schema ID 1
SchemaDefs ==
    { [ SchemaID |-> 1, AppURI |-> ".", DataModelURI |-> "dirs" ],
      [ SchemaID |-> 1, AppURI |-> "appZ", DataModelURI |-> "dirs" ],
      [ SchemaID |-> 2, AppURI |-> "appB", DataModelURI |-> "mail" ] }

DefsSet ==
    { <<d>> : d \in { e \in SchemaDefs : e.AppURI = "." } }
    \cup { << [ SchemaID |-> 2, AppURI |-> "appB", DataModelURI |-> "mail" ],
              [ SchemaID |-> 1, AppURI |-> "appZ", DataModelURI |-> "dirs" ] >> }

PinSchemaIDs == { 1, 2 }

\* Host.RegisterApp: installs appURI -> app and, for each of the app's
\* data models, the default slot (last registration wins); an appURI that
\* is taken is an error and installs nothing
RegisterApp(reg, app) ==
    IF app.uri \in DOMAIN reg.byURI
    THEN reg
    ELSE [ byURI    |-> Put(reg.byURI, app.uri, app.uri),
           defaults |-> [ m \in DOMAIN reg.defaults \cup app.models |->
                            IF m \in app.models THEN app.uri
                                                ELSE reg.defaults[m] ] ]

RECURSIVE RegisterAll(_, _)
RegisterAll(reg, apps) ==
    IF apps = <<>> THEN reg
    ELSE RegisterAll(RegisterApp(reg, Head(apps)), Tail(apps))

\* selection that always takes the default app of the data model
SelectAppForSchema_DefaultOnly(byURI, defaults, schema) ==
    IF schema.DataModelURI \in DOMAIN defaults
    THEN [ err |-> ErrCode_NoErr, app |-> defaults[schema.DataModelURI] ]
    ELSE [ err |-> ErrCode_AppNotFound, app |-> "" ]

\* Host.SelectAppForSchema
SelectAppForSchema(byURI, defaults, schema) ==
    IF schema.AppURI # DefaultAppForDataModel
    THEN IF schema.AppURI \in DOMAIN byURI
         THEN [ err |-> ErrCode_NoErr, app |-> byURI[schema.AppURI] ]
         ELSE [ err |-> ErrCode_AppNotFound, app |-> "" ]
    ELSE IF schema.DataModelURI \in DOMAIN defaults
         THEN [ err |-> ErrCode_NoErr, app |-> defaults[schema.DataModelURI] ]
         ELSE [ err |-> ErrCode_AppNotFound, app |-> "" ]

SchemaOf(def) == [ AppURI |-> def.AppURI, DataModelURI |-> def.DataModelURI ]

NoSchema == [ AppURI |-> "", DataModelURI |-> "" ]

\* a lookup that answers an unknown schema ID with a schema of its own
GetSchemaByID_AnySchema(reg, schemaID) ==
    IF schemaID \in DOMAIN reg
    THEN [ err |-> ErrCode_NoErr, schema |-> reg[schemaID] ]
    ELSE [ err |-> ErrCode_NoErr,
           schema |-> [ AppURI |-> DefaultAppForDataModel,
                        DataModelURI |-> "dirs" ] ]

\* TypeRegistry.GetSchemaByID
GetSchemaByID(reg, schemaID) ==
    IF schemaID \in DOMAIN reg
    THEN [ err |-> ErrCode_NoErr, schema |-> reg[schemaID] ]
    ELSE [ err |-> ErrCode_TypeNotRegistered, schema |-> NoSchema ]

\* registration that replaces the schema an ID already has
RegisterSchema_Overwrites(reg, def) ==
    [ err |-> ErrCode_NoErr, reg |-> Put(reg, def.SchemaID, SchemaOf(def)) ]

\* one schema of a Defs: stored under its ID if the ID is new, a no-op if
\* the ID holds the same content, BadSchema if it holds another
RegisterSchema(reg, def) ==
    IF def.SchemaID \notin DOMAIN reg
    THEN [ err |-> ErrCode_NoErr,
           reg |-> Put(reg, def.SchemaID, SchemaOf(def)) ]
    ELSE IF reg[def.SchemaID] = SchemaOf(def)
    THEN [ err |-> ErrCode_NoErr, reg |-> reg ]
    ELSE [ err |-> ErrCode_BadSchema, reg |-> reg ]

\* TypeRegistry.ResolveAndRegister: the schemas of defs in turn, up to the
\* first that fails
RECURSIVE ResolveAndRegister(_, _)
ResolveAndRegister(reg, defs) ==
    IF defs = <<>> THEN [ err |-> ErrCode_NoErr, reg |-> reg ]
    ELSE LET r == RegisterSchema(reg, Head(defs)) IN
         IF r.err # ErrCode_NoErr THEN r
         ELSE ResolveAndRegister(r.reg, Tail(defs))

\* a Msg on the outbox; pin is the CellReq it was emitted for (its index in
\* pins), 0 for a reply of the multiplexer
OutMsg(op, r, cell, code, pin) ==
    [ op |-> op, req |-> r, cell |-> cell, code |-> code, pin |-> pin ]

\* CellReq, with the state of the pin request state machine: the states it
\* went through, the cancel mark, the close code, the batch of accepted
\* pushes not yet flushed, the number of pushes the engine accepted and
\* whether it refused one
NewCellReq(r, target, schemaID) ==
    [ ReqID |-> r, Target |-> target, ContentSchema |-> schemaID,
      PinSchema |-> NoSchema, App |-> "",
      state |-> "Resolving", trail |-> << "New", "Resolving" >>,
      cancelled |-> FALSE, cancelAt |-> 0, code |-> ErrCode_NoErr,
      queued |-> <<>>, pushes |-> 0, refused |-> FALSE ]

MoveTo(req, st) ==
    [ req EXCEPT !.state = st, !.trail = Append(@, st) ]

\* a request ID that no active request uses
ReqIDInUse_Never(P, r) == FALSE

\* is r the request ID of an active pin request
ReqIDInUse(P, r) ==
    \E i \in 1..Len(P) : P[i].ReqID = r /\ P[i].state # "Closed"

CanRecv == Len(sessLog) < MaxInbound

\* the multiplexer is done with an inbound Msg
Dispatched(op, r, arg, code) ==
    /\ sessLog' = Append(sessLog,
                     [ op |-> op, req |-> r, arg |-> arg, code |-> code,
                       authed |-> loggedIn, inUse |-> ReqIDInUse(pins, r) ])
    /\ UNCHANGED <<symVars, libVars, appByURI, defaultApp, drainOnCancel>>

\* an inbound Msg fails before its payload is looked at: a CloseReq with the
\* Err on its request ID
Reject(op, r, code) ==
    /\ outbox' = Append(outbox, OutMsg(MsgOp_CloseReq, r, 0, code, 0))
    /\ UNCHANGED <<loggedIn, schemas, pins>>
    /\ Dispatched(op, r, 0, code)

\* Login: the challenge validates and the session is flagged authenticated
RecvLogin ==
    \E r \in ReqIDs :
        /\ CanRecv
        /\ IF ReqIDInUse(pins, r)
           THEN Reject(MsgOp_Login, r, ErrCode_InvalidReq)
           ELSE /\ loggedIn' = TRUE
                /\ outbox' = Append(outbox, OutMsg(MsgOp_Login, r, 0,
                                                   ErrCode_NoErr, 0))
                /\ UNCHANGED <<schemas, pins>>
                /\ Dispatched(MsgOp_Login, r, 0, ErrCode_NoErr)

RecvResolveAndRegister ==
    \E r \in ReqIDs, defs \in DefsSet :
        /\ CanRecv
        /\ IF ReqIDInUse(pins, r)
           THEN Reject(MsgOp_ResolveAndRegister, r, ErrCode_InvalidReq)
           ELSE LET res == ResolveAndRegister(schemas, defs) IN
                /\ schemas' = res.reg
                /\ outbox' = Append(outbox,
                                OutMsg(MsgOp_ResolveAndRegister, r, 0,
                                       res.err, 0))
                /\ UNCHANGED <<loggedIn, pins>>
                /\ Dispatched(MsgOp_ResolveAndRegister, r, defs, res.err)

RecvPinCell ==
    \E r \in ReqIDs, schemaID \in PinSchemaIDs :
        /\ CanRecv
        /\ IF ~loggedIn
           THEN Reject(MsgOp_PinCell, r, ErrCode_InsufficientPermissions)
           ELSE IF ReqIDInUse(pins, r)
           THEN Reject(MsgOp_PinCell, r, ErrCode_InvalidReq)
           ELSE /\ pins' = Append(pins, NewCellReq(r, Const_HostSessionCellID,
                                                   schemaID))
                /\ UNCHANGED <<loggedIn, schemas, outbox>>
                /\ Dispatched(MsgOp_PinCell, r, schemaID, ErrCode_NoErr)

\* a client CloseReq marks the active request of that ID as cancelled
RecvCloseReq ==
    \E r \in ReqIDs :
        /\ CanRecv
        /\ pins' = [ i \in 1..Len(pins) |->
                       IF pins[i].ReqID = r /\ pins[i].state # "Closed"
                          /\ ~pins[i].cancelled
                       THEN [ pins[i] EXCEPT !.cancelled = TRUE,
                                             !.cancelAt = Len(outbox) ]
                       ELSE pins[i] ]
        /\ UNCHANGED <<loggedIn, schemas, outbox>>
        /\ Dispatched(MsgOp_CloseReq, r, 0, ErrCode_NoErr)

\* any other opcode from the client
RecvOther ==
    \E r \in ReqIDs :
        /\ CanRecv
        /\ IF ReqIDInUse(pins, r)
           THEN Reject(MsgOp_PushAttr, r, ErrCode_InvalidReq)
           ELSE IF ~loggedIn
           THEN Reject(MsgOp_PushAttr, r, ErrCode_InsufficientPermissions)
           ELSE Reject(MsgOp_PushAttr, r, ErrCode_UnsupportedOp)

\* a step of the pin engine on pins[i]
EngineStep(i, req, out) ==
    /\ pins' = [ pins EXCEPT ![i] = req ]
    /\ outbox' = outbox \o out
    /\ UNCHANGED <<symVars, libVars, loggedIn, schemas, appByURI, defaultApp,
                   drainOnCancel, sessLog>>

\* Resolving: the content schema, then the app, then App.ResolveRequest
\* (appOk: whether it succeeds).  Success sends the PinCell reply and
\* starts streaming; a failure closes the request with its Err.
Resolve(i) ==
    \E appOk \in BOOLEAN :
        LET req == pins[i]
            s   == GetSchemaByID(schemas, req.ContentSchema)
            a   == SelectAppForSchema(appByURI, defaultApp, s.schema)
        IN /\ req.state = "Resolving"
           /\ IF s.err # ErrCode_NoErr
              THEN /\ appOk
                   /\ EngineStep(i, [ MoveTo(req, "Closing") EXCEPT
                                        !.code = s.err ], <<>>)
              ELSE IF a.err # ErrCode_NoErr
              THEN /\ appOk
                   /\ EngineStep(i, [ MoveTo(req, "Closing") EXCEPT
                                        !.PinSchema = s.schema,
                                        !.code = a.err ], <<>>)
              ELSE IF ~appOk
              THEN EngineStep(i, [ MoveTo(req, "Closing") EXCEPT
                                     !.PinSchema = s.schema, !.App = a.app,
                                     !.code = ErrCode_InvalidCell ], <<>>)
              ELSE EngineStep(i, [ MoveTo(req, "Streaming") EXCEPT
                                     !.PinSchema = s.schema, !.App = a.app ],
                              << OutMsg(MsgOp_PinCell, req.ReqID, req.Target,
                                        ErrCode_NoErr, i) >>)

\* what an app pushes for a pinned cell, in its order: the attrs of the
\* pinned cell and a child cell with its attrs, then the commit of the cell
AppScript(app, target) ==
    IF app = "appA"
    THEN << [ op |-> MsgOp_PushAttr, cell |-> target ],
            [ op |-> MsgOp_InsertCell, cell |-> 10 ],
            [ op |-> MsgOp_PushAttr, cell |-> 10 ],
            [ op |-> MsgOp_Commit, cell |-> target ] >>
    ELSE << [ op |-> MsgOp_InsertCell, cell |-> 10 ],
            [ op |-> MsgOp_PushAttr, cell |-> 10 ],
            [ op |-> MsgOp_PushAttr, cell |-> target ],
            [ op |-> MsgOp_Commit, cell |-> target ] >>

\* the Msg of the app's next PushUpdate on pins[i]
AppMsgs(i) ==
    LET req    == pins[i]
        script == AppScript(req.App, req.Target)
    IN { OutMsg(script[k].op, req.ReqID, script[k].cell, ErrCode_NoErr, i) :
           k \in { req.pushes + 1 } \cap DOMAIN script }

\* a batch delivered last message first
Batch_Reversed(q) == [ k \in 1..Len(q) |-> q[Len(q) + 1 - k] ]

\* the messages of a batch, in the order they go to the outbox
Batch(q) == q

\* CellSub.PushUpdate while streaming: the Msg joins the request's batch
AppPush(i) ==
    \E m \in AppMsgs(i) :
        LET req == pins[i] IN
        /\ req.state = "Streaming" /\ ~req.cancelled
        /\ req.pushes < MaxPush
        /\ EngineStep(i, [ req EXCEPT !.queued = Append(@, m),
                                       !.pushes = @ + 1 ], <<>>)

\* CellSub.PushUpdate on a request that is cancelled or closing: refused
AppPushRefused(i) ==
    LET req == pins[i] IN
    /\ \/ req.state = "Streaming" /\ req.cancelled
       \/ req.state = "Closing" /\ req.App # ""
    /\ ~req.refused
    /\ EngineStep(i, [ req EXCEPT !.refused = TRUE ], <<>>)

\* the batch is flushed to the outbox
Flush(i) ==
    LET req == pins[i] IN
    /\ req.state = "Streaming" /\ ~req.cancelled
    /\ req.queued # <<>>
    /\ EngineStep(i, [ req EXCEPT !.queued = <<>> ], Batch(req.queued))

\* App.PushCellState returns an error
AppFail(i) ==
    LET req == pins[i] IN
    /\ req.state = "Streaming"
    /\ EngineStep(i, [ MoveTo(req, "Closing") EXCEPT
                         !.code = ErrCode_DataFailure ], <<>>)

\* App.PushCellState returns: the request is complete
AppDone(i) ==
    LET req == pins[i] IN
    /\ req.state = "Streaming" /\ ~req.cancelled
    /\ EngineStep(i, MoveTo(req, "Closing"), <<>>)

\* the engine takes up the cancel mark of a streaming request
Cancel(i) ==
    LET req == pins[i] IN
    /\ req.state = "Streaming" /\ req.cancelled
    /\ EngineStep(i, [ MoveTo(req, "Closing") EXCEPT
                         !.code = ErrCode_ReqCanceled ], <<>>)

\* Closing: the queued messages are drained (those of a cancelled request
\* only if so configured, else discarded), then the terminal CloseReq
EmitClose(i) ==
    LET req   == pins[i]
        drain == ~req.cancelled \/ drainOnCancel
    IN /\ req.state = "Closing"
       /\ EngineStep(i, [ MoveTo(req, "Closed") EXCEPT !.queued = <<>> ],
                     (IF drain THEN Batch(req.queued) ELSE <<>>)
                     \o << OutMsg(MsgOp_CloseReq, req.ReqID, 0, req.code, i) >>)

InitSess ==
    /\ Holds(openTable(FALSE, <<>>, <<0, MinIssuedID>>))
    /\ crashed = FALSE
    /\ hist = <<>>
    /\ threads = <<>>
    /\ LibFresh
    /\ loggedIn = FALSE
    /\ schemas = <<>>
    /\ \E order \in RegOrders :
          LET reg == RegisterAll([ byURI |-> <<>>, defaults |-> <<>> ], order)
          IN appByURI = reg.byURI /\ defaultApp = reg.defaults
    /\ drainOnCancel \in BOOLEAN
    /\ pins = <<>>
    /\ outbox = <<>>
    /\ sessLog = <<>>

NextSess ==
    \/ RecvLogin
    \/ RecvResolveAndRegister
    \/ RecvPinCell
    \/ RecvCloseReq
    \/ RecvOther
    \/ \E i \in 1..Len(pins) : Resolve(i)
    \/ \E i \in 1..Len(pins) : AppPush(i)
    \/ \E i \in 1..Len(pins) : AppPushRefused(i)
    \/ \E i \in 1..Len(pins) : Flush(i)
    \/ \E i \in 1..Len(pins) : AppFail(i)
    \/ \E i \in 1..Len(pins) : AppDone(i)
    \/ \E i \in 1..Len(pins) : Cancel(i)
    \/ \E i \in 1..Len(pins) : EmitClose(i)

SpecSess == InitSess /\ [][NextSess]_vars

(***************************************************************************)
(* Claims.                                                                 *)
(***************************************************************************)
NoFault == "none"

\* the last two calls were SetSymbolID(a, i), SetSymbolID(b, i) with a # b,
\* i # 0, neither value bound before the first, both completed without a
\* KV fault
TwoSetsSameID ==
    /\ Len(hist) >= 2
    /\ LET c1 == hist[Len(hist) - 1]
           c2 == hist[Len(hist)] IN
       /\ c1.op = "Set" /\ c2.op = "Set"
       /\ c1.id # ZeroID /\ c2.id = c1.id
       /\ c1.val # c2.val
       /\ c1.val \notin c1.fwdBound /\ c2.val \notin c1.fwdBound
       /\ ~c1.kvErr /\ ~c2.kvErr
       /\ ~c1.panic /\ ~c2.panic

\* the value cache maps val to symID
CacheMaps(T, val, symID) ==
    \E h \in DOMAIN T.valueCache :
        EntryIs(T, T.valueCache[h], val) /\ T.valueCache[h].symID = symID

\* the three queries of the scenario, made in turn on the current table
C1_Queries ==
    LET a  == hist[Len(hist) - 1].val
        b  == hist[Len(hist)].val
        i  == hist[Len(hist)].id
        q1 == LookupID(Cur, i)
        q2 == GetSymbolID(q1.T, a, FALSE, NoFault)
        q3 == GetSymbolID(q2.T, b, FALSE, NoFault)
    IN [ a |-> a, b |-> b, i |-> i, q1 |-> q1, q2 |-> q2, q3 |-> q3 ]

OnThisTable(k) ==
    /\ k \in 1..Len(hist)
    /\ \A j \in k..Len(hist) : hist[j].op # "Reopen"

LastCall == hist[Len(hist)]

NoExplicitSet ==
    \A j \in 1..Len(hist) : hist[j].op = "Set" => hist[j].id = ZeroID

IDsBoundTo(T, val) ==
    { ReadFrom(Tail(k)) :
        k \in { kk \in DOMAIN T.store :
                  Len(kk) = 1 + IDSz /\ T.store[kk] = val } }

\* C3 as stated: threads that concurrently call GetSymbolID(v, true) on a
\* table with a db, for the same uninterned v, all return the same ID, and
\* the store ends with exactly one ID bound to v.
C3_Original ==
    (/\ hasDb
     /\ AllDone
     /\ \A t, u \in Threads : threads[t].val = threads[u].val)
    => /\ \A t, u \in Threads : threads[t].ret = threads[u].ret
       /\ Cardinality(IDsBoundTo(Cur, threads[1].val)) = 1

\* C4 as stated: after GetSymbolID(v, true) has returned, calling it again
\* returns the same ID and changes neither the store nor the Issuer's
\* counter, on every table and whatever the KV store would answer.
C4_Original ==
    (/\ Len(hist) >= 1
     /\ LastCall.op = "Get" /\ LastCall.autoIssue /\ ~LastCall.panic)
    => \A fault \in Faults :
          LET r == GetSymbolID(Cur, LastCall.val, TRUE, fault) IN
          /\ ~r.panic
          /\ r.ret = LastCall.ret
          /\ r.T.store = store
          /\ r.T.nextID = nextID

\* C5 as stated: if x is the ID GetSymbolID(v, true) returned, LookupID(x)
\* returns exactly v, for every v, the empty one and the first one included.
C5_Original ==
    (/\ Len(hist) >= 1
     /\ LastCall.op = "Get" /\ LastCall.autoIssue /\ ~LastCall.panic)
    => LET q == LookupID(Cur, LastCall.ret) IN
       ~q.panic /\ ~q.isNil /\ q.buf = LastCall.val

\* C6 as stated: a call whose KV Set or Commit failed with an error other
\* than a conflict fails, and does not put the binding into the caches.
C6_Original ==
    \A k \in 1..Len(hist) :
        hist[k].kvErr => (hist[k].panic /\ ~hist[k].cacheChanged)

\* two outcomes of a call are the same: both panic, or both return the same
\* ID and leave the same table
SameOutcome(r1, r2) ==
    /\ r1.panic = r2.panic
    /\ ~r1.panic => (r1.ret = r2.ret /\ r1.T = r2.T)

\* C7 as stated: in every reachable table state, with or without a db,
\* SetSymbolID(v, 0) returns the same ID and leaves the same store, Issuer
\* and caches as GetSymbolID(v, true).
C7_Original ==
    ~crashed =>
        \A v \in Values :
            SameOutcome(SetSymbolID(Cur, v, ZeroID, NoFault),
                        GetSymbolID(Cur, v, TRUE, NoFault))

ValuesDistinct ==
    \A t, u \in Threads : t # u => threads[t].val # threads[u].val

\* C8 as stated: after n threads have concurrently interned n distinct new
\* values, the n IDs are distinct and non-zero, LookupID(id_i) = v_i for
\* every i, and the next-ID counter has advanced by exactly n.
C8_Original ==
    (AllDone /\ ValuesDistinct)
    => /\ \A t, u \in Threads : t # u => threads[t].ret # threads[u].ret
       /\ \A t \in Threads : threads[t].ret # ZeroID
       /\ \A t \in Threads :
             LET q == LookupID(Cur, threads[t].ret) IN
             ~q.panic /\ ~q.isNil /\ q.buf = threads[t].val
       /\ nextID = <<0, MinIssuedID + NThreads>>

BigEndian5(x) ==
    << x[1] \div 256, x[1] % 256,
       x[2] \div 65536, (x[2] \div 256) % 256, x[2] % 256 >>

\* the keys as the key layout of the store is described: reverse entries
\* under [p][0xFF][ID], forward entries under [p][0xFF][0xFE][value]
DescribedRevKey(x) == <<DbKeyPrefix, 255>> \o BigEndian5(x)
DescribedFwdKey(v) == <<DbKeyPrefix, 255, 254>> \o v

\* the reverse key without the 0xFF byte: [p][ID]
PlainRevKey(x) == <<DbKeyPrefix>> \o BigEndian5(x)

\* the last call bound a value that had no forward binding to a non-zero ID
\* and committed both of its entries
BoundBothWays ==
    /\ hasDb
    /\ Len(hist) >= 1
    /\ LastCall.op \in { "Get", "Set" }
    /\ ~LastCall.panic /\ ~LastCall.kvErr
    /\ ~LastCall.hadFwd
    /\ LastCall.ret # ZeroID
    /\ LastCall.storeChanged

HoldsAt(k, v) == k \in DOMAIN store /\ store[k] = v

LiveSessions ==
    { s \in 1..Len(libSessions) :
        /\ ~libSessions[s].closed
        /\ ~libHosts[libServices[libSessions[s].svc].host].closed }

\* C12: the embedding surface holds at most one session.  Call_SessionBegin
\* called while a session is active returns 0, starts no host or service
\* and leaves the active session as it is; it returns a non-zero handle only
\* when it has put a new session into the empty slot.
C12_AtMostOneSession ==
    /\ Cardinality(LiveSessions) <= 1
    /\ \A k \in 1..Len(libLog) :
          LET c == libLog[k] IN
          c.op = "SessionBegin" =>
              /\ c.before.sess # 0 => (c.ret = 0 /\ c.after = c.before)
              /\ c.ret # 0 =>
                    /\ c.before.sess = 0
                    /\ c.after.sessions = NewLibSession(c.before.sessions,
                                                        c.after.svc)
                    /\ c.after.sess = Len(c.after.sessions)
                    /\ ~c.after.hosts[c.after.services[c.after.svc].host].closed

\* C12 witness: a session was begun, and a second Call_SessionBegin returned
\* 0 and left it in the slot
C12_Witness ==
    /\ Len(libLog) >= 2
    /\ libLog[1].op = "SessionBegin" /\ libLog[1].ret = SessionHandle
    /\ libLog[2].op = "SessionBegin" /\ libLog[2].ret = 0
    /\ gLibSession = 1 /\ LiveSessions = { 1 }
    /\ Len(libHosts) = 1

\* the ID val was bound to before call c: the store's forward entry on a
\* table with a db, the value cache's entry on a table without
BoundBefore(c) == IF hasDb THEN c.storedID ELSE c.cachedID

\* call c is SetSymbolID(v, id), id # 0, made without a KV fault when v had
\* a forward binding to another non-zero ID
SetOverOtherID(c) ==
    /\ c.op = "Set" /\ c.id # ZeroID /\ ~c.kvErr
    /\ BoundBefore(c) # ZeroID /\ BoundBefore(c) # c.id

\* C19 as stated: SetSymbolID(v, id), id # 0, when v is bound forward to a
\* different non-zero ID e, returns id and overwrites only the forward
\* entry: v now maps to id, the reverse entry e -> v remains, and no
\* reverse entry id -> v is written to the store.
C19_Original ==
    \A k \in 1..Len(hist) :
        LET c == hist[k] IN
        SetOverOtherID(c) =>
            /\ ~c.panic
            /\ c.ret = c.id
            /\ hasDb => c.store1 = Put(c.store0, DescribedFwdKey(c.val),
                                       BigEndian5(c.id))
            /\ (hasDb /\ PlainRevKey(c.id) # DescribedFwdKey(c.val))
                  => (PlainRevKey(c.id) \in DOMAIN c.store1
                        => PlainRevKey(c.id) \in DOMAIN c.store0)

\* call c is SetSymbolID(v, id), id # 0, made when v was bound forward to id
SetOverSameID(c) ==
    /\ c.op = "Set" /\ c.id # ZeroID
    /\ BoundBefore(c) = c.id

\* C20 as stated: SetSymbolID(v, id), id # 0, when v is already bound
\* forward to id, writes nothing to the store and returns id; applying it
\* twice leaves the same store and caches as applying it once.
C20_Original ==
    /\ \A k \in 1..Len(hist) :
          LET c == hist[k] IN
          SetOverSameID(c) =>
              /\ ~c.panic
              /\ c.ret = c.id
              /\ c.store1 = c.store0
              /\ ~c.issued
    /\ ~crashed =>
          \A v \in Values, id \in SetIDs \ { ZeroID } :
              LET r1 == SetSymbolID(Cur, v, id, NoFault)
                  r2 == SetSymbolID(r1.T, v, id, NoFault)
              IN ~r1.panic => (~r2.panic /\ r2.ret = id /\ r2.T = r1.T)


\* the messages the pin engine put on the outbox for pins[i], in order
MsgsOf(i) == SelectSeq(outbox, LAMBDA m : m.pin = i)

\* did the request go through state st
Reached(req, st) == \E k \in DOMAIN req.trail : req.trail[k] = st

\* in s, an InsertCell of every child cell comes before its PushAttrs
InsertBeforePush(s, target) ==
    \A k \in DOMAIN s :
        (s[k].op = MsgOp_PushAttr /\ s[k].cell # target)
            => \E j \in 1..(k - 1) :
                  s[j].op = MsgOp_InsertCell /\ s[j].cell = s[k].cell

\* in s, at most one CloseReq, and nothing after it
CloseReqLast(s) ==
    \A k \in DOMAIN s : s[k].op = MsgOp_CloseReq => k = Len(s)

CancelledWhileStreaming(i) ==
    /\ pins[i].cancelled
    /\ \E k \in 1..pins[i].cancelAt :
          outbox[k].pin = i /\ outbox[k].op = MsgOp_PinCell

\* C14: once the client's CloseReq for an active pin request has been
\* processed, the pushes of the app are not accepted any more and the only
\* message that still appears on the outbox for the request is its terminal
\* CloseReq
C14_Original ==
    \A i \in DOMAIN pins :
        CancelledWhileStreaming(i)
            => /\ \A k \in (pins[i].cancelAt + 1)..Len(outbox) :
                     outbox[k].pin = i => /\ outbox[k].op = MsgOp_CloseReq
                                          /\ k = Len(outbox) \/ outbox[k + 1].pin # i
               /\ pins[i].state = "Closed"
                     => \E k \in (pins[i].cancelAt + 1)..Len(outbox) :
                           outbox[k].pin = i /\ outbox[k].op = MsgOp_CloseReq


\* the active pin requests of request ID r
ActiveWith(P, r) ==
    { i \in DOMAIN P : P[i].ReqID = r /\ P[i].state # "Closed" }

\* the step took an inbound request (any opcode but CloseReq, which names
\* the request it cancels) whose request ID an active pin request uses
DuplicateTaken ==
    /\ Len(sessLog') = Len(sessLog) + 1
    /\ sessLog'[Len(sessLog')].op # MsgOp_CloseReq
    /\ ActiveWith(pins, sessLog'[Len(sessLog')].req) # {}

\* C15: at any time at most one active pin request has a given request ID;
\* an inbound request on a request ID in use by an active request fails
\* with InvalidReq (a CloseReq carrying it is the reply), creates no CellReq
\* and leaves the existing CellReqs as they are
C15_OneActivePerReqID ==
    /\ [](\A r \in ReqIDs : Cardinality(ActiveWith(pins, r)) <= 1)
    /\ [][ DuplicateTaken
             => /\ sessLog'[Len(sessLog')].code = ErrCode_InvalidReq
                /\ pins' = pins
                /\ outbox' = Append(outbox,
                                OutMsg(MsgOp_CloseReq,
                                       sessLog'[Len(sessLog')].req, 0,
                                       ErrCode_InvalidReq, 0)) ]_vars

\* a second PinCell on the request ID of an active request was rejected and
\* the first request went on to stream
C15_Witness ==
    /\ \E k \in DOMAIN sessLog :
          /\ sessLog[k].op = MsgOp_PinCell
          /\ sessLog[k].inUse
          /\ sessLog[k].code = ErrCode_InvalidReq
    /\ Len(pins) = 1
    /\ pins[1].state = "Streaming"


\* the step handed the Defs of a ResolveAndRegister to the type registry
DefsTaken ==
    /\ Len(sessLog') = Len(sessLog) + 1
    /\ sessLog'[Len(sessLog')].op = MsgOp_ResolveAndRegister
    /\ ~sessLog'[Len(sessLog')].inUse

\* def gives a registered schema ID the content it has / another content
SameAsRegistered(reg, def) ==
    def.SchemaID \in DOMAIN reg /\ reg[def.SchemaID] = SchemaOf(def)

DivergesFromRegistered(reg, def) ==
    def.SchemaID \in DOMAIN reg /\ reg[def.SchemaID] # SchemaOf(def)

\* C16: a registered schema ID keeps its schema in every step of the
\* session; a ResolveAndRegister whose schemas are all registered with the
\* same content succeeds and changes nothing; one that gives a registered
\* ID another content fails with BadSchema, and GetSchemaByID of that ID
\* returns what it returned before
C16_SchemaIDKeepsItsSchema ==
    /\ [][ \A id \in DOMAIN schemas :
              GetSchemaByID(schemas', id) = GetSchemaByID(schemas, id) ]_vars
    /\ [][ DefsTaken
             => LET m    == sessLog'[Len(sessLog')]
                    defs == m.arg
                IN /\ (\A k \in DOMAIN defs : SameAsRegistered(schemas, defs[k]))
                         => m.code = ErrCode_NoErr /\ schemas' = schemas
                   /\ \A k \in DOMAIN defs :
                         DivergesFromRegistered(schemas, defs[k])
                            => /\ m.code = ErrCode_BadSchema
                               /\ outbox'[Len(outbox')].code = ErrCode_BadSchema
                               /\ GetSchemaByID(schemas', defs[k].SchemaID)
                                     = GetSchemaByID(schemas, defs[k].SchemaID)
         ]_vars

\* schema ID 1 was registered, registered again with the same content
\* (success) and then with another content (BadSchema); it has the first
\* content
C16_Witness ==
    \E j, k, l \in DOMAIN sessLog :
        /\ j < k /\ k < l
        /\ \A n \in { j, k, l } :
              sessLog[n].op = MsgOp_ResolveAndRegister /\ ~sessLog[n].inUse
        /\ sessLog[j].arg = sessLog[k].arg
        /\ Len(sessLog[j].arg) = 1
        /\ sessLog[j].code = ErrCode_NoErr /\ sessLog[k].code = ErrCode_NoErr
        /\ sessLog[l].code = ErrCode_BadSchema
        /\ \E n \in DOMAIN sessLog[l].arg :
              /\ sessLog[l].arg[n].SchemaID = sessLog[j].arg[1].SchemaID
              /\ SchemaOf(sessLog[l].arg[n]) # SchemaOf(sessLog[j].arg[1])
        /\ GetSchemaByID(schemas, sessLog[j].arg[1].SchemaID).schema
              = SchemaOf(sessLog[j].arg[1])


\* what the pin engine did with pins[i] when its ContentSchema is not in
\* the registry: no message but a CloseReq with TypeNotRegistered, one once
\* the request is Closed, and the request never streamed
ClosedAsNotRegistered(i) ==
    LET s == MsgsOf(i) IN
    /\ Len(s) <= 1
    /\ \A k \in DOMAIN s : /\ s[k].op = MsgOp_CloseReq
                           /\ s[k].code = ErrCode_TypeNotRegistered
                           /\ s[k].req = pins[i].ReqID
    /\ ~Reached(pins[i], "Streaming")
    /\ pins[i].state = "Closed" => Len(s) = 1
    /\ pins[i].state \in { "Closing", "Closed" }
          => pins[i].code = ErrCode_TypeNotRegistered

\* C17 as stated: whatever the session, a PinCell whose ContentSchema was
\* never registered is answered by one message, a CloseReq with
\* TypeNotRegistered (no schema was ever registered while schemas is empty)
C17_Original ==
    /\ \A k \in DOMAIN sessLog :
          (sessLog[k].op = MsgOp_PinCell /\ schemas = <<>>)
             => sessLog[k].code \in { ErrCode_NoErr, ErrCode_TypeNotRegistered }
    /\ \A i \in DOMAIN pins :
          pins[i].ContentSchema \notin DOMAIN schemas
             => ClosedAsNotRegistered(i)

\* C17 (amended): in an authenticated session, a PinCell on a request ID
\* that no active request uses is handed to the pin engine; if its
\* ContentSchema was never registered, the engine emits exactly one message
\* for the request, a CloseReq with Err code TypeNotRegistered, and no
\* PinCell reply, PushAttr or InsertCell
C17_UnknownSchemaClosesRequest ==
    /\ \A k \in DOMAIN sessLog :
          (sessLog[k].op = MsgOp_PinCell /\ sessLog[k].authed
           /\ ~sessLog[k].inUse)
             => sessLog[k].code = ErrCode_NoErr
    /\ \A i \in DOMAIN pins :
          pins[i].ContentSchema \notin DOMAIN schemas
             => ClosedAsNotRegistered(i)

\* a request for an unregistered schema was closed with its one CloseReq
\* and the session then served a ResolveAndRegister
C17_Witness ==
    \E i \in DOMAIN pins :
        /\ pins[i].ContentSchema \notin DOMAIN schemas
        /\ pins[i].state = "Closed"
        /\ Len(MsgsOf(i)) = 1
        /\ MsgsOf(i)[1].code = ErrCode_TypeNotRegistered
        /\ outbox[Len(outbox)].op = MsgOp_ResolveAndRegister
        /\ outbox[Len(outbox)].code = ErrCode_NoErr
        /\ outbox[Len(outbox) - 1].pin = i


\* the app the host has for a schema: the one registered under the schema's
\* AppURI, or for AppURI "." the default of its data model; "" if none
RegisteredFor(schema) ==
    IF schema.AppURI # "."
    THEN IF schema.AppURI \in DOMAIN appByURI
         THEN appByURI[schema.AppURI] ELSE ""
    ELSE IF schema.DataModelURI \in DOMAIN defaultApp
         THEN defaultApp[schema.DataModelURI] ELSE ""

\* C18: a request whose schema was resolved has the app registered under
\* the schema's AppURI or, for AppURI ".", the default app of the schema's
\* data model; if there is no such app the selection fails with
\* AppNotFound and the request goes from Resolving to Closing with that
\* error, never to Streaming
C18_AppSelection ==
    \A i \in DOMAIN pins :
        (pins[i].state # "Resolving" /\ pins[i].PinSchema # NoSchema)
            => /\ pins[i].App = RegisteredFor(pins[i].PinSchema)
               /\ pins[i].App = ""
                     => /\ pins[i].code = ErrCode_AppNotFound
                        /\ ~Reached(pins[i], "Streaming")
                        /\ SubSeq(pins[i].trail, 1, 3)
                              = << "New", "Resolving", "Closing" >>
                        /\ \A k \in DOMAIN MsgsOf(i) :
                              /\ MsgsOf(i)[k].op = MsgOp_CloseReq
                              /\ MsgsOf(i)[k].code = ErrCode_AppNotFound
               /\ Reached(pins[i], "Streaming") => pins[i].App # ""

\* one request streamed with the app of its schema's AppURI, another was
\* closed with AppNotFound because no app has its schema's AppURI
C18_Witness ==
    \E i, j \in DOMAIN pins :
        /\ pins[i].PinSchema.AppURI \notin { ".", "" }
        /\ pins[i].App = pins[i].PinSchema.AppURI
        /\ Reached(pins[i], "Streaming")
        /\ pins[j].PinSchema.AppURI \notin { ".", "" }
        /\ pins[j].PinSchema.AppURI \notin DOMAIN appByURI
        /\ pins[j].state = "Closed"
        /\ pins[j].code = ErrCode_AppNotFound


\* C21 as stated: a commit conflict is not surfaced to the caller, the call
\* retries on a fresh transaction, and every call whose commit met a
\* conflict eventually commits and returns (a thread at "done" has returned
\* its ID)
C21_Original ==
    \A t \in Threads :
        (threads[t].conflicts > 0) ~> (threads[t].pc = "done")


\* the thread holds a lock on mu
HoldsLock(th, mu) == \E i \in DOMAIN th.held : th.held[i][1] = mu

\* C22: no interleaving of GetSymbolID, SetSymbolID and LookupID calls
\* deadlocks on the cache locks.  While a call is unfinished some thread
\* can take a step; a thread that holds both locks took valueCacheMu first;
\* no thread is at (or past) an acquisition of valueCacheMu while it holds
\* tokenCacheMu.
C22_NoLockDeadlock ==
    /\ (~crashed /\ \E t \in Threads : threads[t].pc # "done")
          => ENABLED NextLock
    /\ \A t \in Threads :
          LET th == threads[t] IN
          /\ \A i, j \in DOMAIN th.held :
                (th.held[i][1] = "tokenCacheMu"
                 /\ th.held[j][1] = "valueCacheMu") => j < i
          /\ th.pc \in { "gRLock", "aLock" } => ~HoldsLock(th, "tokenCacheMu")
          /\ th.pc \in { "done", "db", "lLoad", "bufRead" } => th.held = <<>>

\* one thread holds valueCacheMu and tokenCacheMu, taken in that order,
\* while another waits for valueCacheMu
C22_Witness ==
    \E t, u \in Threads :
        /\ threads[t].held = << <<"valueCacheMu", "W">>,
                                <<"tokenCacheMu", "W">> >>
        /\ threads[u].pc = "aLock"
        /\ ~CanLock("valueCacheMu")


\* C23 as stated: reads of the arena are race-free; no state is reachable in
\* which one thread is at a read of the pool list or of a pool's bytes
\* while another thread, at the copy of allocAndBindToID, is appending
C23_Original ==
    \A t \in Threads : ~ArenaRace(t)


(***************************************************************************)
(* C24: between openTable and Close the arena is append-only.  In every    *)
(* step of a call the pool list only grows and every pool keeps its size,  *)
(* a pool of at least max(PoolSz, len) bytes is appended exactly when the  *)
(* call inserts a value the current pool has no room for, the bytes every  *)
(* existing cache entry refers to stay what they were, and the range of    *)
(* the new entry lies after the ranges of the entries already in its pool. *)
(***************************************************************************)
CacheEntries(T) ==
    { T.valueCache[h] : h \in DOMAIN T.valueCache }
    \cup { T.tokenCache[i] : i \in DOMAIN T.tokenCache }

\* the step is a call on the open table, not a Close followed by openTable
TableCallStep == hist' # hist /\ hist'[Len(hist')].op # "Reopen"

\* the entry an insertion of this step placed in the value cache
InsertedKV ==
    valueCache'[CHOOSE h \in DOMAIN valueCache' :
                   h \notin DOMAIN valueCache \/ valueCache'[h] # valueCache[h]]

LacksRoom(len) ==
    curBufPoolSz + len >
        (IF curBufPoolIdx < 0 THEN 0 ELSE Len(bufPools[curBufPoolIdx + 1]))

ArenaAppendOnly ==
    /\ Len(bufPools') >= Len(bufPools)
    /\ \A i \in DOMAIN bufPools : Len(bufPools'[i]) = Len(bufPools[i])
    /\ \A kv \in CacheEntries(Cur) :
          InBounds(Cur, kv) =>
              SubSeq(bufPools'[kv.poolIdx + 1], kv.poolOfs + 1,
                     kv.poolOfs + kv.len) = Slice(Cur, kv)
    /\ IF valueCache' # valueCache /\ LacksRoom(InsertedKV.len)
       THEN /\ Len(bufPools') = Len(bufPools) + 1
            /\ Len(bufPools'[Len(bufPools')]) >= Max(PoolSz, InsertedKV.len)
            /\ InsertedKV.poolIdx = Len(bufPools)
       ELSE Len(bufPools') = Len(bufPools)
    /\ valueCache' # valueCache =>
          \A kv \in CacheEntries(Cur) :
              (kv.poolIdx = InsertedKV.poolIdx /\ kv.len > 0
                 /\ InsertedKV.len > 0)
              => kv.poolOfs + kv.len <= InsertedKV.poolOfs

C24_ArenaAppendOnly == [][TableCallStep => ArenaAppendOnly]_vars

\* an entry sits in the first pool and a later insertion has opened a second
\* pool, or has been copied behind it into the same pool
C24_Witness ==
    /\ Len(hist) >= 2
    /\ \E kv, kw \in CacheEntries(Cur) :
          /\ kv.len > 0 /\ kw.len > 0 /\ InBounds(Cur, kv) /\ InBounds(Cur, kw)
          /\ kv.poolIdx = 0
          /\ \/ kw.poolIdx = 1
             \/ kw.poolIdx = 0 /\ kw.poolOfs >= kv.poolOfs + kv.len


(***************************************************************************)
(* C25: every entry with a non-zero ID in the value cache and in the token *)
(* cache refers to an existing pool (0 <= poolIdx < number of pools) and   *)
(* to a range inside that pool, after any sequence of insertions.          *)
(***************************************************************************)
C25_Original ==
    \A kv \in CacheEntries(Cur) : kv.symID # ZeroID => InBounds(Cur, kv)


(***************************************************************************)
(* C26: hash collisions in the forward cache never mix up values.  For any *)
(* two distinct values whose hashes are equal or adjacent, once both are   *)
(* interned getIDFromCache gives each its own ID, the ID of the cache      *)
(* entry whose bytes are that value; for a value no entry holds it gives   *)
(* 0.                                                                      *)
(***************************************************************************)
HashesCollide(v, w) ==
    v # w /\ HashBuf(v) - HashBuf(w) \in { -1, 0, 1 }

FindsOwnID(v) ==
    LET g == getIDFromCache(Cur, v) IN ~g.panic /\ g.id = CachedID(Cur, v)

C26_Original ==
    ~crashed =>
        /\ \A v, w \in Values :
              (HashesCollide(v, w) /\ FwdInCache(Cur, v) /\ FwdInCache(Cur, w))
              => FindsOwnID(v) /\ FindsOwnID(w)
        /\ \A v \in Values :
              ~FwdInCache(Cur, v) => getIDFromCache(Cur, v).id = ZeroID

(***************************************************************************)
(* C27: ID serialization round-trips on 40 bits.  WriteTo appends exactly  *)
(* 5 bytes to the buffer it is given; ReadFrom on those bytes reports 5    *)
(* bytes consumed and yields the ID modulo 2^40, which is the ID itself    *)
(* when the ID is below 2^40.                                              *)
(***************************************************************************)
\* x mod 2^40 for x = <<hi, lo>>
Mod40(id) == << id[1] % 65536, id[2] >>

Below40(id) == id[1] < 65536

C27_RoundTrip40Bits ==
    \A i \in DOMAIN hist :
        LET r == hist[i] IN
        /\ (r.op = "Codec" /\ r.pc # "in") =>
              /\ Len(r.out) = Len(r.io) + 5
              /\ SubSeq(r.out, 1, Len(r.io)) = r.io
        /\ (r.op = "Codec" /\ r.pc = "read") =>
              /\ r.n = 5
              /\ r.back = Mod40(r.id)
              /\ Below40(r.id) => r.back = r.id

\* one batch has read back the largest 40-bit ID unchanged and an ID of
\* more than 40 bits reduced
C27_Witness ==
    \E i, j \in DOMAIN hist :
        /\ hist[i].op = "Codec" /\ hist[i].pc = "read"
        /\ hist[i].id = <<65535, 16777215>> /\ hist[i].back = hist[i].id
        /\ hist[j].op = "Codec" /\ hist[j].pc = "read"
        /\ ~Below40(hist[j].id) /\ hist[j].back # hist[j].id


(***************************************************************************)
(* C28: under one prefix byte the persistent key spaces are disjoint, so   *)
(* writing one binding never overwrites an entry of the other index.       *)
(* After every call that committed, the forward entry it wrote for its     *)
(* value holds the ID it bound, and the reverse entry of every other ID    *)
(* and the forward entry of every other value are what they were.          *)
(***************************************************************************)
SameAt(k, s0, s1) ==
    /\ k \in DOMAIN s0 <=> k \in DOMAIN s1
    /\ k \in DOMAIN s0 => s0[k] = s1[k]

C28_Original ==
    \A i \in DOMAIN hist :
        LET r == hist[i] IN
        (r.op \in { "Get", "Set" } /\ r.storeChanged) =>
            /\ ValKey(r.val) \in DOMAIN r.store1
            /\ r.store1[ValKey(r.val)] = WriteTo(r.ret, <<>>)
            /\ \A x \in (SetIDs \cup LookupIDs) \ { ZeroID, r.ret } :
                  SameAt(TokenKey(x), r.store0, r.store1)
            /\ \A w \in Values \ { r.val } :
                  SameAt(ValKey(w), r.store0, r.store1)


(***************************************************************************)
(* C29: with a backing store the forward cache is consistent with the      *)
(* persistent forward index in every reachable state of a running table:   *)
(* whenever the value cache maps a value v to an ID x, the store's         *)
(* committed forward entry for v is x.                                     *)
(***************************************************************************)
C29_Original ==
    (hasDb /\ ~crashed) =>
        \A v \in Values :
            CachedID(Cur, v) # ZeroID => StoredID(Cur, v) = CachedID(Cur, v)


(***************************************************************************)
(* C30: LookupID is a pure reader with respect to the forward mapping.  A  *)
(* LookupID call, also one that misses the token cache and loads from the  *)
(* store, writes nothing to the KV store and leaves what                   *)
(* GetSymbolID(w, false) returns unchanged, for every value w.             *)
(***************************************************************************)
LookupStep == hist' # hist /\ hist'[Len(hist')].op = "Lookup"

\* what GetSymbolID(w, false) would give on table T
Answer(T, w) ==
    LET r == GetSymbolID(T, w, FALSE, "none") IN
    [ panic |-> r.panic, ret |-> IF r.panic THEN ZeroID ELSE r.ret ]

C30_Original ==
    [][LookupStep =>
          /\ store' = store
          /\ \A w \in Values : Answer(Cur, w)' = Answer(Cur, w)]_vars


(***************************************************************************)
(* C31: Call_PushMsg, Call_WaitOnMsg and Call_Realloc return -1 and touch  *)
(* no session whenever the global session slot is empty, which it is       *)
(* before any SessionBegin, after SessionEnd and after Shutdown; they      *)
(* return 0 only when an active session is in the slot and the call was    *)
(* forwarded to that session.                                              *)
(***************************************************************************)
SessionOps == { "PushMsg", "WaitOnMsg", "Realloc" }

\* the session in the slot of snapshot s is open and its host is running
ActiveIn(s) ==
    /\ s.sess \in 1..Len(s.sessions)
    /\ ~s.sessions[s.sess].closed
    /\ ~s.hosts[s.services[s.sessions[s.sess].svc].host].closed

\* the one session in the slot got the call, and nothing else changed
ForwardedTo(op, s0, s1) ==
    LET old == s0.sessions[s0.sess]
        new == IF op = "PushMsg" THEN [ old EXCEPT !.pushed = @ + 1 ]
               ELSE IF op = "WaitOnMsg" THEN [ old EXCEPT !.waited = @ + 1 ]
               ELSE [ old EXCEPT !.realloc = @ + 1 ]
    IN s1 = [ s0 EXCEPT !.sessions = [ s0.sessions EXCEPT ![s0.sess] = new ] ]

C31_NoSessionNoForward ==
    /\ libLog = <<>> => gLibSession = 0
    /\ \A k \in 1..Len(libLog) :
          LET c == libLog[k] IN
          /\ c.op \in { "SessionEnd", "Shutdown" } => c.after.sess = 0
          /\ c.op \in SessionOps =>
                /\ c.before.sess = 0 =>
                      (c.ret = -1 /\ c.status = "running"
                         /\ c.after = c.before)
                /\ (c.ret = 0 /\ c.status = "running") =>
                      (ActiveIn(c.before) /\ ForwardedTo(c.op, c.before, c.after))
                /\ c.ret \in { 0, -1 }

\* a call was forwarded to the session, and after SessionEnd one was refused
C31_Witness ==
    \E i, j, k \in 1..Len(libLog) :
        /\ i < j /\ j < k
        /\ libLog[i].op \in SessionOps /\ libLog[i].ret = 0
        /\ libLog[i].status = "running"
        /\ libLog[j].op \in { "SessionEnd", "Shutdown" }
        /\ libLog[k].op \in SessionOps /\ libLog[k].ret = -1


(***************************************************************************)
(* C32: Call_Shutdown with a running service empties the service slot and  *)
(* the session slot, closes the service's host and returns, and has then   *)
(* seen the service signal Done; with an empty service slot, as in a       *)
(* second consecutive Shutdown, it changes nothing; a Call_SessionBegin    *)
(* that follows a Shutdown is not refused.                                 *)
(***************************************************************************)
\* the service in the slot of snapshot s was started on a host still running
RunningIn(s) ==
    /\ s.svc \in 1..Len(s.services)
    /\ s.services[s.svc].started
    /\ ~s.hosts[s.services[s.svc].host].closed

C32_Shutdown ==
    \A k \in 1..Len(libLog) :
        LET c == libLog[k] IN
        /\ (c.op = "Shutdown" /\ RunningIn(c.before)) =>
              /\ c.status = "running"
              /\ c.after.svc = 0 /\ c.after.sess = 0
              /\ c.after.hosts = CloseHost(c.before.hosts,
                                           c.before.services[c.before.svc].host)
              /\ c.after.services[c.before.svc].done
              /\ c.after.sessions = c.before.sessions
        /\ (c.op = "Shutdown" /\ c.before.svc # 0 /\ c.status = "running") =>
              c.after.services[c.before.svc].done
        /\ (c.op = "Shutdown" /\ c.before.svc = 0) =>
              (c.after = c.before /\ c.status = "running")
        /\ (c.op = "Shutdown" /\ k > 1 /\ libLog[k - 1].op = "Shutdown") =>
              c.after = c.before
        /\ (c.op = "SessionBegin" /\ k > 1 /\ libLog[k - 1].op = "Shutdown") =>
              /\ c.before.sess = 0 /\ c.before.svc = 0
              /\ Len(c.after.hosts) = Len(c.before.hosts) + 1

\* a session was begun, Shutdown stopped its service, a second Shutdown
\* followed, and a new SessionBegin returned the handle
C32_Witness ==
    /\ Len(libLog) >= 4
    /\ libLog[1].op = "SessionBegin" /\ libLog[1].ret = SessionHandle
    /\ libLog[2].op = "Shutdown" /\ libLog[2].after.hosts[1].closed
    /\ libLog[3].op = "Shutdown"
    /\ libLog[4].op = "SessionBegin" /\ libLog[4].ret = SessionHandle
    /\ ActiveIn(LibSnap) /\ gLibSession = 2


(***************************************************************************)
(* C33: a Call_SessionBegin that fails returns 0 with the host it started  *)
(* closed and with the service slot and the session slot both empty, so    *)
(* that no later Call_Shutdown operates on a host already closed.          *)
(***************************************************************************)
\* the call was let through by the guard and returned 0
FailedBegin(c) == c.op = "SessionBegin" /\ c.before.sess = 0 /\ c.ret = 0

C33_Original ==
    \A k \in 1..Len(libLog) :
        LET c == libLog[k] IN
        /\ FailedBegin(c) =>
              /\ c.after.hosts[Len(c.after.hosts)].closed
              /\ c.after.sess = 0
              /\ c.after.svc = 0
        /\ (c.op = "Shutdown" /\ c.before.svc # 0) =>
              ~c.before.hosts[c.before.services[c.before.svc].host].closed


(***************************************************************************)
(* C34: after any sequence of calls at most one host started by            *)
(* SessionBegin is still un-closed, and once a Call_Shutdown has returned  *)
(* every host started before it is closed.                                 *)
(***************************************************************************)
OpenHosts(s) == { h \in 1..Len(s.hosts) : ~s.hosts[h].closed }

C34_Original ==
    /\ Cardinality(OpenHosts(LibSnap)) <= 1
    /\ \A k \in 1..Len(libLog) :
          (libLog[k].op = "Shutdown" /\ libLog[k].status = "running")
          => OpenHosts(libLog[k].after) = {}


(***************************************************************************)
(* C35: getsetValueIDPair(v, id, mapID = true) with id # 0, when v has an  *)
(* existing forward binding e with e # 0 and e # id.  As claimed: the      *)
(* forward binding stays on e, e is the ID returned, and a reverse entry   *)
(* for id is written.                                                      *)
(***************************************************************************)
\* a direct call with a non-zero ID and mapID set (mapID is kept in the
\* autoIssue field of the call record)
HoldsIn(st, k, v) == k \in DOMAIN st /\ st[k] = v

SetWithMapID(r) == r.op = "GetSet" /\ r.id # ZeroID /\ r.autoIssue

BoundElsewhere(r) == r.storedID # ZeroID /\ r.storedID # r.id

C35_Original ==
    \A i \in DOMAIN hist :
        LET r == hist[i] IN
        (SetWithMapID(r) /\ BoundElsewhere(r) /\ ~r.kvErr /\ ~r.panic) =>
            /\ r.ret = r.storedID
            /\ HoldsIn(r.store1, ValKey(r.val), WriteTo(r.storedID, <<>>))
            /\ HoldsIn(r.store1, TokenKey(r.id), r.val)

\* C35 as the code has it: with id # 0 and mapID set the existing binding
\* is not looked up; the call returns id, and with a db and no KV error it
\* writes the forward entry v -> id and then the reverse entry id -> v,
\* whatever v was bound to; otherwise it writes nothing.
C35_SetWithMapIDOverwrites ==
    \A i \in DOMAIN hist :
        LET r == hist[i] IN
        SetWithMapID(r) =>
            /\ r.ret = r.id
            /\ r.store1 =
                  IF hasDb /\ ~r.kvErr
                  THEN Put(Put(r.store0, ValKey(r.val), WriteTo(r.id, <<>>)),
                           TokenKey(r.id), r.val)
                  ELSE r.store0

\* a value bound to 1 in the store was given the ID FF FE 00 00 01 with
\* mapID set: the call returned the new ID and the forward entry holds it
C35_Witness ==
    \E i \in DOMAIN hist :
        LET r == hist[i] IN
        /\ SetWithMapID(r) /\ BoundElsewhere(r) /\ ~r.kvErr /\ ~r.panic
        /\ r.val = <<1>> /\ r.id = AliasID /\ r.storedID = <<0, 1>>
        /\ r.ret = AliasID
        /\ HoldsIn(r.store1, ValKey(r.val), WriteTo(AliasID, <<>>))

====
